---- MODULE Spec2Model ----
(***************************************************************************)
(* RAG pipeline of the backend: the conversation store and chat turn       *)
(* (RagService.chat, RagChatAgent, RagRepository.add_message), vector      *)
(* retrieval (RagRepository.vector_search) and the folder ingestion sweep  *)
(* (RagService.ingest_folder, IngestionService).                           *)
(*                                                                         *)
(* Every request runs on its own database session (api/deps.py get_db),    *)
(* i.e. its own transaction.  A row carries the transaction that wrote it  *)
(* (tx) until that transaction commits; a statement of a transaction sees  *)
(* the committed rows and the rows the transaction wrote itself (the       *)
(* engine is created without an isolation level, helpers/postgres.py       *)
(* 38-45, so the store runs at its default, read committed).               *)
(***************************************************************************)
EXTENDS Integers, Sequences, FiniteSets, TLC

\* ------------------------------------------------------------------ bounds
MaxTurns  == 2      \* chat requests started in one behaviour
MaxSweeps == 1      \* ingestion sweeps started in one behaviour
MaxFiles  == 2      \* file names that may be present in the documents root
MaxChunks == 2      \* chunks the splitter yields for one file, at most
MaxTexts  == 3      \* texts in one call of embed_batch, at most
MaxBatch  == 2      \* batch size of embed_batch, at most

\* ------------------------------------------------------- program constants
top_k == 5                  \* RagChatAgent.__init__, chat_agent.py:28
similarity_threshold == 0   \* RagRepository.vector_search default, rag_repository.py:161

Turns     == {"t1", "t2"}       \* concurrent chat requests
SlotOrder == [t \in Turns |-> IF t = "t1" THEN 1 ELSE 2]
Sweepers  == {"s1", "s2"}       \* ingestion requests
FirstSweeper == "s1"            \* the request of a client that sweeps alone
FileNames == 1 .. MaxFiles      \* file names, ordered as the names sort
ConvIds   == 1 .. MaxTurns      \* conversation ids (fresh per create)
NoConv    == 0                  \* ChatRequest.conversation_id = None
Committed == "c"                \* tx tag of a committed row
NoTx      == "-"                \* del tag of a row nobody is deleting
Root      == "root"             \* settings.documents_root, resolved
Texts     == {"hi"}             \* ChatRequest.message values (min_length 1)
FolderArgs == {"none", Root, "elsewhere"}   \* ChatRequest.folder_path

Fallback ==
    "I apologize, but I encountered an error generating a response. Please try again."

VARIABLES
    convs,      \* rag_conversations rows
    msgs,       \* rag_messages rows
    docs,       \* rag_documents rows
    chunks,     \* rag_chunks rows
    nextConv,   \* next fresh conversation id (uuid4)
    nextDoc,    \* next fresh document id (uuid4)
    turn,       \* per chat request: position and locals of RagService.chat
    sweep,      \* per ingestion request: position and locals of ingest_folder
    turnsLeft,  \* chat requests that may still start
    sweepsLeft, \* sweeps that may still start
    call,       \* a call of a function of the services: arguments and result
    fs          \* the documents root: the content hash of each file name

vars == <<convs, msgs, docs, chunks, nextConv, nextDoc, turn, sweep,
          turnsLeft, sweepsLeft, call, fs>>

dbVars    == <<convs, msgs, docs, chunks, nextConv, nextDoc>>

\* ----------------------------------------------------------------- helpers
Max(S) == IF S = {} THEN 0 ELSE CHOOSE m \in S : \A x \in S : x <= m
Min(S) == CHOOSE m \in S : \A x \in S : m <= x

\* The rows of a table a statement of transaction tx sees: committed rows and
\* its own writes, without the rows it has itself deleted.
Visible(tx, rows) == {r \in rows : r.tx = Committed \/ r.tx = tx}

VisibleDocs(tx) == {d \in Visible(tx, docs) : d.del # tx}
VisibleChunks(tx) == {c \in Visible(tx, chunks) : c.del # tx}

\* ------------------------------------------------------------ pure helpers
\* len(message) and message.strip() of the request texts.
AtLimit == "a message of fifty characters"
OverLimit == "a message of fifty-one characters"
TextLen(text) ==
    CASE text = "hi" -> 2
      [] text = AtLimit -> 50
      [] text = OverLimit -> 51
      [] OTHER -> 1
IsBlank(text) == text = " "

\* IngestionService.normalize_folder_path: a falsy argument stands for the
\* documents root; anything that does not resolve to the root raises ValueError.
\* C18, mutant: a normalisation that accepts every folder path.
NormalizeOk_Any(folder_path) == TRUE
NormalizeOk(folder_path) == folder_path \in {"none", Root}
normalize_folder_path(folder_path) == Root

\* RagService.chat, the derived title: message[:50] + ("..." if len > 50).
title_limit == 50
NoTitle == [text |-> "", keep |-> 0, dots |-> FALSE]
\* C23, mutant: a title that is the whole message.
DeriveTitle_Whole(message) ==
    [text |-> message, keep |-> TextLen(message), dots |-> FALSE]
DeriveTitle(message) ==
    [text |-> message,
     keep |-> IF TextLen(message) > title_limit THEN title_limit ELSE TextLen(message),
     dots |-> TextLen(message) > title_limit]

\* Embeddings are modelled in one dimension: 1 and -1 are the two unit
\* vectors, 0 is the zero vector.  1 - cosine distance of two unit vectors is
\* their product; with a zero vector the cosine distance is NaN.
ZeroVector == 0
\* The provider is a function of the text: the vector of the request text,
\* and the vector of the i-th chunk text of a file.
QueryVector(text) == 1
ChunkVector(i) == IF i % 2 = 1 THEN 1 ELSE -1
IsNaN(e, q) == e = ZeroVector \/ q = ZeroVector
Similarity(e, q) == e * q
\* ORDER BY c.embedding <=> $1: ascending distance, NaN sorts after every number.
DistanceKey(e, q) == IF IsNaN(e, q) THEN 3 ELSE 1 - Similarity(e, q)

\* Rows in ascending distance; rows at the same distance keep insertion order
\* (document id, then chunk index).
RowBefore(a, b, q) ==
    \/ DistanceKey(a.emb, q) < DistanceKey(b.emb, q)
    \/ /\ DistanceKey(a.emb, q) = DistanceKey(b.emb, q)
       /\ (a.doc < b.doc \/ (a.doc = b.doc /\ a.idx < b.idx))

RECURSIVE OrderByDistance(_, _)
OrderByDistance(rows, q) ==
    IF rows = {} THEN <<>>
    ELSE LET first == CHOOSE r \in rows : \A o \in rows \ {r} : RowBefore(r, o, q)
         IN <<first>> \o OrderByDistance(rows \ {first}, q)

Head_n(s, n) == SubSeq(s, 1, IF Len(s) < n THEN Len(s) ELSE n)

\* C21, mutant: a search that compares no similarity with the threshold.
PassesThreshold_NoFilter(c, q, threshold) == c.hasEmb

\* (1 - (c.embedding <=> $1)) >= threshold.  Without an embedding the
\* similarity is NULL and the comparison is not true.  A NaN similarity passes
\* the comparison in the store (NaN compares greater than every number) and
\* is dropped afterwards by the math.isnan test.
PassesThreshold(c, q, threshold) ==
    c.hasEmb /\ (IsNaN(c.emb, q) \/ Similarity(c.emb, q) >= threshold)

\* C6, mutant: the search without its status condition.
StatusFilter_Any(d) == TRUE

\* d.status = 'completed'
StatusFilter(d) == d.status = "completed"
\* c.embedding IS NOT NULL
EmbeddingFilter(c) == c.hasEmb

SearchRows(tx, q, folder_path, threshold) ==
    {c \in VisibleChunks(tx) :
        /\ \E d \in VisibleDocs(tx) :
              /\ d.id = c.doc
              /\ StatusFilter(d)
              /\ (folder_path # "none" => d.folder = folder_path)
        /\ EmbeddingFilter(c)
        /\ PassesThreshold(c, q, threshold)}

\* RagRepository.vector_search: the chunks returned, in order.
vector_search(tx, q, folder_path, limit, threshold) ==
    LET rows == Head_n(OrderByDistance(SearchRows(tx, q, folder_path, threshold), q), limit)
        NotNaN(c) == ~IsNaN(c.emb, q)
    IN SelectSeq(rows, NotNaN)

ChunkId(c) == <<c.doc, c.idx>>
ChunkIds(rows) == [i \in 1 .. Len(rows) |-> ChunkId(rows[i])]

\* conversation.messages: the relationship is ordered by RagMessage.sequence.
RECURSIVE OrderBySequence(_)
OrderBySequence(rows) ==
    IF rows = {} THEN <<>>
    ELSE LET first == CHOOSE r \in rows : \A o \in rows : r.seq <= o.seq
         IN <<first>> \o OrderBySequence(rows \ {first})

MessagesOf(tx, conv) == {m \in Visible(tx, msgs) : m.conv = conv}

History(tx, conv) ==
    LET ordered == OrderBySequence(MessagesOf(tx, conv))
    IN [i \in 1 .. Len(ordered) |-> [role |-> ordered[i].role, content |-> ordered[i].content]]

\* ------------------------------------------------------- the chat request
IdleTurn ==
    [pc |-> "idle", req |-> 0, cid |-> NoConv, conv |-> NoConv,
     msg |-> "hi", hist |-> <<>>, title |-> NoTitle,
     stages |-> <<>>, retrieveErr |-> "none", sources |-> <<>>,
     context |-> "", generateFailed |-> FALSE, answer |-> "",
     txAborted |-> FALSE, nextSeq |-> 0, userSeq |-> 0, asstSeq |-> 0,
     newFolder |-> "none", err |-> "none", status |-> 0,
     embedCalls |-> 0, searchCalls |-> 0, chatCalls |-> 0, sent |-> <<>>]

\* get_session, helpers/postgres.py 86-93: an exception leaving the request
\* rolls the session back, so the rows the transaction wrote are gone.
Rollback(tx, rows) == {r \in rows : r.tx # tx}
\* session.commit(): the rows the transaction wrote become committed rows.
CommitRows(tx, rows) ==
    {IF r.tx = tx THEN [r EXCEPT !.tx = Committed] ELSE r : r \in rows}

\* C16, mutant: an endpoint that answers every error of chat alike.
chat_status_AllAlike(err) == 400
\* api/v1/rag.py 90-105: the status of the /chat response.
chat_status(err) ==
    CASE err = "none" -> 200
      [] err = "LookupError" -> 404
      [] err = "ValueError" -> 400
      [] OTHER -> 500

Raise(t, kind) ==
    /\ turn' = [turn EXCEPT ![t] =
          [IdleTurn EXCEPT !.pc = "failed", !.err = kind,
                           !.status = chat_status(kind),
                           !.retrieveErr = turn[t].retrieveErr,
                           !.generateFailed = turn[t].generateFailed]]
    /\ convs' = Rollback(t, convs)
    /\ msgs' = Rollback(t, msgs)

\* RagService.chat lines 88-117: resolve or create the conversation, check the
\* folder scope, read the history.
\* Request slots are interchangeable: a request takes the first free one.
Free(t) == turn[t].pc \in {"idle", "done", "failed"}
FirstFree(t) == Free(t) /\ \A o \in Turns : Free(o) => SlotOrder[t] <= SlotOrder[o]

\* C17, mutant: a scope check that switches the conversation to the
\* requested folder instead of raising.
scope_check_Switch(conversation, normalized_path) ==
    [raise |-> FALSE, folder |-> normalized_path]
\* RagService.chat lines 101-109: a recorded folder that differs from the
\* normalized one raises ValueError; a conversation without a recorded
\* folder ("none": the column is NULL) takes the normalized one.
scope_check(conversation, normalized_path) ==
    IF conversation.folder # "none" /\ conversation.folder # normalized_path
    THEN [raise |-> TRUE, folder |-> conversation.folder]
    ELSE [raise |-> FALSE,
          folder |-> IF conversation.folder = "none" THEN normalized_path
                     ELSE conversation.folder]

\* C30, mutant: a lookup that leaves out soft-deleted conversations.
get_conversation_with_messages_ActiveOnly(tx, conv_id) ==
    {c \in Visible(tx, convs) : c.id = conv_id /\ c.active}
\* RagRepository.get_conversation_with_messages: where id = conv_id, with
\* no test of is_active.
get_conversation_with_messages(tx, conv_id) ==
    {c \in Visible(tx, convs) : c.id = conv_id}

StartChat(t, cid, folder_path, message) ==
    /\ FirstFree(t)
    /\ turnsLeft > 0
    /\ turnsLeft' = turnsLeft - 1
    /\ LET found == get_conversation_with_messages(t, cid)
           fresh == [IdleTurn EXCEPT !.req = turnsLeft, !.cid = cid, !.msg = message]
           failed(kind) == [IdleTurn EXCEPT !.pc = "failed", !.err = kind,
                                            !.status = chat_status(kind)]
       IN IF cid # NoConv /\ found = {}
          THEN /\ turn' = [turn EXCEPT ![t] = failed("LookupError")]
               /\ UNCHANGED <<call, fs, convs, nextConv>>
          ELSE IF cid = NoConv /\ ~NormalizeOk(folder_path)
          THEN /\ turn' = [turn EXCEPT ![t] = failed("ValueError")]
               /\ UNCHANGED <<call, fs, convs, nextConv>>
          ELSE LET conversation ==
                       IF cid # NoConv THEN CHOOSE c \in found : TRUE
                       ELSE [id |-> nextConv,
                             folder |-> normalize_folder_path(folder_path),
                             title |-> NoTitle, active |-> TRUE, tx |-> t]
                   requested == IF folder_path # "none" THEN folder_path
                                ELSE conversation.folder
                   scope == scope_check(conversation,
                                        normalize_folder_path(requested))
               IN IF ~NormalizeOk(requested) \/ scope.raise
                  THEN /\ turn' = [turn EXCEPT ![t] = failed("ValueError")]
                       /\ UNCHANGED <<call, fs, convs, nextConv>>
                  ELSE /\ convs' = IF cid = NoConv THEN convs \cup {conversation}
                                   ELSE convs
                       /\ nextConv' = IF cid = NoConv THEN nextConv + 1 ELSE nextConv
                       /\ turn' = [turn EXCEPT ![t] =
                             [fresh EXCEPT
                                !.pc = "retrieve",
                                !.conv = conversation.id,
                                !.title = conversation.title,
                                !.newFolder =
                                    IF scope.folder # conversation.folder
                                    THEN scope.folder ELSE "none",
                                !.hist = IF cid # NoConv
                                         THEN History(t, conversation.id)
                                         ELSE <<>>]]
    /\ UNCHANGED <<call, fs, msgs, docs, chunks, nextDoc, sweep, sweepsLeft>>

\* RagChatAgent._augment_node: the context is the fixed "no documents" text
\* when nothing was retrieved, the concatenated sources otherwise.
augment(sources) == IF sources = <<>> THEN "no_documents" ELSE "documents"

\* RagChatAgent._retrieve_node followed by _augment_node (chat_agent.py
\* 164-168).  outcome: the query embedding and the search succeed ("ok"); an
\* exception is raised before a statement reaches the store ("embed_error":
\* the embedding call raises, for a blank text or a provider failure); or the
\* search statement fails in the store ("search_error"), which leaves the
\* session's transaction refusing every further statement: the statement ran
\* on the raw driver connection of that transaction and nothing rolls back.
Retrieve(t, outcome) ==
    /\ turn[t].pc = "retrieve"
    /\ IsBlank(turn[t].msg) => outcome = "embed_error"
    /\ LET found == IF outcome = "ok"
                    THEN vector_search(t, QueryVector(turn[t].msg), Root, top_k,
                                       similarity_threshold)
                    ELSE <<>>
       IN turn' = [turn EXCEPT
                     ![t].pc = "generate",
                     ![t].stages = <<"retrieve", "augment">>,
                     ![t].retrieveErr = IF outcome = "ok" THEN "none" ELSE outcome,
                     ![t].txAborted = (outcome = "search_error"),
                     ![t].embedCalls = turn[t].embedCalls
                                       + (IF IsBlank(turn[t].msg) THEN 0 ELSE 1),
                     ![t].searchCalls = turn[t].searchCalls
                                        + (IF outcome = "embed_error" THEN 0 ELSE 1),
                     ![t].sources = ChunkIds(found),
                     ![t].context = augment(ChunkIds(found))]
    /\ UNCHANGED <<call, fs, dbVars, sweep, turnsLeft, sweepsLeft>>

\* RagChatAgent._generate_node: the provider's text, or the fixed fallback
\* when the provider call raises.
generate(provider_ok) == IF provider_ok THEN "answer" ELSE Fallback

\* C26, mutant: the history placed after the user turn.
ollama_messages_HistoryLast(messages, context, query) ==
    <<[role |-> "system", content |-> "instructions"],
      [role |-> "user", content |-> query, context |-> context]>> \o messages
\* _generate_node lines 113-125: the system prompt, the history as given,
\* then one user message made of the context and the query.
ollama_messages(messages, context, query) ==
    <<[role |-> "system", content |-> "instructions"]>>
    \o [i \in 1 .. Len(messages) |->
           [role |-> messages[i].role, content |-> messages[i].content]]
    \o <<[role |-> "user", content |-> query, context |-> context]>>

Generate(t, provider_ok) ==
    /\ turn[t].pc = "generate"
    /\ turn' = [turn EXCEPT
                  ![t].pc = "select_user",
                  ![t].chatCalls = turn[t].chatCalls + 1,
                  ![t].sent = ollama_messages(turn[t].hist, turn[t].context,
                                              turn[t].msg),
                  ![t].stages = Append(turn[t].stages, "generate"),
                  ![t].generateFailed = ~provider_ok,
                  ![t].answer = generate(provider_ok)]
    /\ UNCHANGED <<call, fs, dbVars, sweep, turnsLeft, sweepsLeft>>

\* RagRepository.add_message lines 317-322:
\* select coalesce(max(sequence), 0) + 1 where conversation_id = ...
next_sequence(tx, conv) == Max({m.seq : m \in MessagesOf(tx, conv)}) + 1

SelectNextSequence(t, role) ==
    /\ turn[t].pc = (IF role = "user" THEN "select_user" ELSE "select_assistant")
    /\ IF turn[t].txAborted
       THEN Raise(t, "InFailedSqlTransaction")
       ELSE /\ turn' = [turn EXCEPT
                          ![t].pc = (IF role = "user" THEN "insert_user"
                                     ELSE "insert_assistant"),
                          ![t].nextSeq = next_sequence(t, turn[t].conv)]
            /\ UNCHANGED <<call, fs, convs, msgs>>
    /\ UNCHANGED <<call, fs, nextConv, docs, chunks, nextDoc, sweep, turnsLeft, sweepsLeft>>

\* The unique constraint uq_rag_messages_conversation_id_sequence (alembic
\* 2025_12_30_0003, lines 42-46): an insert of a key a committed row holds is
\* rejected, an insert of a key another open transaction holds waits for it.
SequenceTaken_NoConstraint(conv, seq) == FALSE   \* C2, mutant: no unique constraint
SequenceTaken(conv, seq) ==
    \E m \in msgs : m.conv = conv /\ m.seq = seq /\ m.tx = Committed
\* C27, mutant: an insert that does not wait for another transaction's
\* uncommitted row of the same key.
SequencePending_NoWait(tx, conv, seq) == FALSE
SequencePending(tx, conv, seq) ==
    \E m \in msgs : m.conv = conv /\ m.seq = seq /\ m.tx \notin {Committed, tx}

\* RagMessage.id defaults to uuid4: an id no other row has.  A request appends
\* one message per role, so (request, role) names the row.
MessageId(req, role) == <<req, role>>

\* C3, mutant: the assistant message stored without the retrieved chunk ids.
MessageRow_NoSources(t, role) ==
    [id |-> MessageId(turn[t].req, role), conv |-> turn[t].conv,
     seq |-> turn[t].nextSeq, role |-> role,
     content |-> IF role = "user" THEN turn[t].msg ELSE turn[t].answer,
     sources |-> <<>>, tx |-> t]

\* The two add_message calls of RagService.chat (lines 125-137): the user
\* message without sources, the assistant message with the retrieved chunk ids.
MessageRow(t, role) ==
    [id |-> MessageId(turn[t].req, role), conv |-> turn[t].conv, seq |-> turn[t].nextSeq, role |-> role,
     content |-> IF role = "user" THEN turn[t].msg ELSE turn[t].answer,
     sources |-> IF role = "user" THEN <<>> ELSE turn[t].sources,
     tx |-> t]

\* RagRepository.add_message lines 324-335: insert the row and flush.
InsertMessage(t, role) ==
    /\ turn[t].pc = (IF role = "user" THEN "insert_user" ELSE "insert_assistant")
    /\ ~SequencePending(t, turn[t].conv, turn[t].nextSeq)
    /\ IF SequenceTaken(turn[t].conv, turn[t].nextSeq)
       THEN Raise(t, "IntegrityError")
       ELSE /\ msgs' = msgs \cup {MessageRow(t, role)}
            /\ turn' = [turn EXCEPT
                          ![t].pc = (IF role = "user" THEN "select_assistant"
                                     ELSE "commit"),
                          ![t].userSeq = IF role = "user" THEN turn[t].nextSeq ELSE @,
                          ![t].asstSeq = IF role = "user" THEN @ ELSE turn[t].nextSeq]
            /\ UNCHANGED convs
    /\ UNCHANGED <<call, fs, nextConv, docs, chunks, nextDoc, sweep, turnsLeft, sweepsLeft>>

\* RagService.chat lines 148-159: the response is returned, the locals are gone.
Returned(t) == [IdleTurn EXCEPT !.pc = "done", !.status = chat_status("none")]

\* RagService.chat line 139 and the test of line 141.
CommitTurn(t) ==
    /\ turn[t].pc = "commit"
    /\ convs' = {IF c.id = turn[t].conv /\ turn[t].newFolder # "none"
                 THEN [c EXCEPT !.folder = turn[t].newFolder] ELSE c :
                    c \in CommitRows(t, convs)}
    /\ msgs' = CommitRows(t, msgs)
    /\ turn' = [turn EXCEPT ![t] =
                  IF turn[t].title.keep = 0 /\ Len(turn[t].hist) = 0
                  THEN [turn[t] EXCEPT !.pc = "title"]
                  ELSE Returned(t)]
    /\ UNCHANGED <<call, fs, nextConv, docs, chunks, nextDoc, sweep, turnsLeft, sweepsLeft>>

\* RagService.chat lines 142-146 with RagRepository.update_conversation_title.
UpdateTitle(t) ==
    /\ turn[t].pc = "title"
    /\ convs' = {IF c.id = turn[t].conv
                 THEN [c EXCEPT !.title = DeriveTitle(turn[t].msg)] ELSE c : c \in convs}
    /\ turn' = [turn EXCEPT ![t] = Returned(t)]
    /\ UNCHANGED <<call, fs, msgs, nextConv, docs, chunks, nextDoc, sweep, turnsLeft, sweepsLeft>>

\* C22, mutant: a delete that removes the row.
delete_conversation_Hard(conv_id, rows) ==
    {c \in rows : ~ (c.id = conv_id /\ c.tx = Committed)}
\* RagRepository.delete_conversation lines 297-303: is_active = False on the
\* row the session finds.
delete_conversation(conv_id, rows) ==
    {IF c.id = conv_id /\ c.tx = Committed
     THEN [c EXCEPT !.active = FALSE] ELSE c : c \in rows}
\* RagRepository.list_conversations: where is_active.
list_conversations == {c.id : c \in {x \in convs : x.tx = Committed /\ x.active}}

\* RagService.delete_conversation with RagRepository.delete_conversation: the
\* active flag of the conversation, when it is found, is cleared and committed.
DeleteConversation(cid) ==
    /\ \E c \in convs : c.id = cid /\ c.tx = Committed /\ c.active = TRUE
    /\ convs' = delete_conversation(cid, convs)
    /\ UNCHANGED <<call, fs, msgs, nextConv, docs, chunks, nextDoc, turn, sweep,
                   turnsLeft, sweepsLeft>>

ChatStep(t) ==
    \/ \E cid \in {NoConv} \cup ConvIds, f \in FolderArgs, m \in Texts :
          StartChat(t, cid, f, m)
    \/ \E outcome \in {"ok", "embed_error", "search_error"} : Retrieve(t, outcome)
    \/ \E ok \in BOOLEAN : Generate(t, ok)
    \/ \E role \in {"user", "assistant"} : SelectNextSequence(t, role)
    \/ \E role \in {"user", "assistant"} : InsertMessage(t, role)
    \/ CommitTurn(t)
    \/ UpdateTitle(t)

\* ------------------------------------------------- calls of one function
NoCall == [op |-> "none", args |-> <<>>, result |-> <<>>, returned |-> FALSE]

\* text.strip() of the texts handed to the embedding service.
EmbedTexts == {"", " ", "a", "b"}
Strip(text) == IF text \in {"", " "} THEN "" ELSE text
\* EmbeddingService.embed_text: the provider's vector of a text.
embed_text(text) == IF text = "a" THEN 1 ELSE -1

\* C15, mutant: the provider is called for blank texts too.
EmbedOne_NoBlankCheck(text, raises) ==
    IF raises THEN ZeroVector ELSE embed_text(text)
\* embed_batch lines 49-60, one text of a batch: the provider is called for
\* a text that is not blank; a blank text and a call that raises give the
\* zero vector.
EmbedOne(text, raises) ==
    IF Strip(text) # ""
    THEN IF raises THEN ZeroVector ELSE embed_text(text)
    ELSE ZeroVector

\* embed_batch lines 45-66: for i in range(0, len(texts), batch_size) the
\* slice texts[i : i + batch_size] is embedded text by text and the vectors
\* are appended to the result.  failing: the positions whose call raises.
RECURSIVE EmbedBatches(_, _, _, _)
EmbedBatches(texts, batch_size, failing, i) ==
    IF i >= Len(texts) THEN <<>>
    ELSE LET stop  == IF i + batch_size < Len(texts) THEN i + batch_size
                      ELSE Len(texts)
             batch == [k \in 1 .. stop - i |->
                          EmbedOne(texts[i + k], (i + k) \in failing)]
         IN batch \o EmbedBatches(texts, batch_size, failing, i + batch_size)
embed_many(texts, batch_size, failing) == EmbedBatches(texts, batch_size, failing, 0)

TextLists ==
    UNION {[1 .. n -> EmbedTexts] : n \in 0 .. MaxTexts}

\* ------------------------------------------------------ the folder sweep
IdleSweep ==
    [pc |-> "idle", files |-> <<>>, total |-> 0, idx |-> 0, existing |-> 0,
     doc |-> 0, nchunks |-> 0, failing |-> {}, embeddings |-> <<>>,
     error |-> "none", reached |-> {}, aborted |-> FALSE,
     events |-> <<>>]

ProgressEvent(total, processed, file) ==
    [type |-> "progress", total |-> total, processed |-> processed, file |-> file]
ErrorEvent(total, processed, file) ==
    [type |-> "error", total |-> total, processed |-> processed, file |-> file]
CompleteEvent(total, processed) ==
    [type |-> "complete", total |-> total, processed |-> processed, file |-> 0]
\* api/v1/rag.py 56-58: the event of an exception that left the generators.
InternalErrorEvent ==
    [type |-> "error", error |-> "Internal error during ingestion"]
\* api/v1/rag.py 54-55: the event of a ValueError that left the generators.
ValidationErrorEvent ==
    [type |-> "error", error |-> "Folder path must be the documents root"]

\* IngestionService.list_folder_files: sorted(files, key=name).
RECURSIVE SortByName(_)
SortByName(names) ==
    IF names = {} THEN <<>>
    ELSE LET first == Min(names) IN <<first>> \o SortByName(names \ {first})

\* C9, mutant: the listing in descending name order.
RECURSIVE SortByNameDescending(_)
SortByNameDescending(names) ==
    IF names = {} THEN <<>>
    ELSE LET first == Max(names)
         IN <<first>> \o SortByNameDescending(names \ {first})
list_folder_files_Descending(present) == SortByNameDescending(present)

list_folder_files(present) == SortByName(present)

CurrentFile(s) == sweep[s].files[sweep[s].idx + 1]

\* session.commit() of the sweep's session: its inserts become committed rows,
\* the rows it deleted are gone.
\* C28, mutant: a commit that keeps the rows the transaction deleted.
CommitSweepRows_Restore(tx, rows) ==
    {IF r.tx = tx THEN [r EXCEPT !.tx = Committed]
     ELSE IF r.del = tx THEN [r EXCEPT !.del = NoTx] ELSE r : r \in rows}
\* session.commit() of RagService.ingest_folder line 63: the rows the
\* transaction wrote become committed, the rows it deleted are gone.
CommitSweepRows(tx, rows) ==
    {IF r.tx = tx THEN [r EXCEPT !.tx = Committed] ELSE r :
        r \in {x \in rows : x.del # tx}}

\* IngestionService.ingest_folder lines 81-100: list the files and yield the
\* first event (the completion event when there is no file).
FirstFreeSweeper ==
    IF sweep[FirstSweeper].pc \in {"idle", "done", "interrupted"} THEN FirstSweeper
    ELSE "s2"

StartSweep(s, present) ==
    /\ sweep[s].pc \in {"idle", "done", "interrupted"}
    /\ s = FirstFreeSweeper
    /\ sweepsLeft > 0
    /\ sweepsLeft' = sweepsLeft - 1
    /\ LET files == list_folder_files(present)
           total == Len(files)
       IN sweep' = [sweep EXCEPT ![s] =
             [IdleSweep EXCEPT
                !.files = files,
                !.total = total,
                !.pc = IF total = 0 THEN "yield_complete" ELSE "yield_progress",
                !.events = IF total = 0 THEN <<CompleteEvent(0, 0)>>
                           ELSE <<ProgressEvent(total, 0, files[1])>>]]
    /\ UNCHANGED <<call, fs, convs, msgs, nextConv, turn, turnsLeft, docs, chunks, nextDoc>>

\* The session ends without a commit (get_session, helpers/postgres.py
\* 86-93: close() in the finally clause): the rows the transaction wrote are
\* gone, the rows it deleted are back.
RollbackSweepRows(tx, rows) ==
    {IF r.del = tx THEN [r EXCEPT !.del = NoTx] ELSE r : r \in Rollback(tx, rows)}

\* session.commit() on a session whose flush failed raises; the exception
\* leaves both generators and the endpoint ends the stream with its own
\* error event (api/v1/rag.py 56-58).
AbortStream(s) ==
    [IdleSweep EXCEPT !.pc = "done", !.files = sweep[s].files,
                      !.total = sweep[s].total, !.idx = sweep[s].idx,
                      !.existing = sweep[s].existing, !.aborted = TRUE,
                      !.events = Append(sweep[s].events, InternalErrorEvent)]

\* RagService.ingest_folder lines 61-63: the consumer took the progress event,
\* the session commits, the inner generator goes on with the file.
ResumeAfterProgress(s) ==
    /\ sweep[s].pc = "yield_progress"
    /\ docs' = IF sweep[s].aborted THEN docs ELSE CommitSweepRows(s, docs)
    /\ chunks' = IF sweep[s].aborted THEN chunks ELSE CommitSweepRows(s, chunks)
    /\ sweep' = [sweep EXCEPT ![s] = IF sweep[s].aborted THEN AbortStream(s)
                                     ELSE [sweep[s] EXCEPT !.pc = "lookup"]]
    /\ UNCHANGED <<call, fs, convs, msgs, nextConv, turn, turnsLeft, nextDoc, sweepsLeft>>

\* C25, mutant: a count over the whole chunk table.
get_chunk_count_by_document_All(tx, doc_id) == Cardinality(VisibleChunks(tx))
\* RagRepository.get_chunk_count_by_document: count(id) where document_id = ...
get_chunk_count_by_document(tx, doc_id) ==
    Cardinality({c \in VisibleChunks(tx) : c.doc = doc_id})

\* IngestionService._compute_file_hash: the SHA-256 of the file's bytes.
_compute_file_hash(name) == fs[name]
\* Every file has a content of its own.
OwnContents == [name \in FileNames |-> name]

\* C20, mutant: the lookup of RagRepository.get_document_by_hash in the
\* place of the lookup by name.
get_document_by_name_ByHash(tx, name) ==
    {d \in VisibleDocs(tx) : d.hash = _compute_file_hash(name)}
\* _ingest_single_file lines 127-131: get_document_by_name.
get_document_by_name(tx, name) == {d \in VisibleDocs(tx) : d.name = name}

LookupExisting(s) ==
    /\ sweep[s].pc = "lookup"
    /\ LET existing == get_document_by_name(s, CurrentFile(s))
       IN sweep' = [sweep EXCEPT
                      ![s].existing = IF existing = {} THEN 0
                                      ELSE (CHOOSE d \in existing : TRUE).id,
                      ![s].pc = IF existing = {} THEN "create" ELSE "delete"]
    /\ UNCHANGED <<call, fs, convs, msgs, nextConv, turn, turnsLeft, docs, chunks, nextDoc,
                   sweepsLeft>>

\* RagRepository.delete_document: the document row is deleted and, by the
\* cascade of RagDocument.chunks / the foreign key, so are its chunks.
delete_document(tx, doc_id, rows) ==
    {IF r.id = doc_id THEN [r EXCEPT !.del = tx] ELSE r : r \in rows}
\* C7, mutant: a delete that leaves the chunks of the document in place.
delete_chunks_cascade_None(tx, doc_id, rows) == rows
delete_chunks_cascade(tx, doc_id, rows) ==
    {IF r.doc = doc_id THEN [r EXCEPT !.del = tx] ELSE r : r \in rows}

\* The row lock of a DELETE: the statement waits while another open
\* transaction has deleted the same row.
RowLocked(tx, doc_id) ==
    \E d \in docs : d.id = doc_id /\ d.del \notin {NoTx, tx}

DeleteExisting(s) ==
    /\ sweep[s].pc = "delete"
    /\ ~ RowLocked(s, sweep[s].existing)
    /\ docs' = delete_document(s, sweep[s].existing, docs)
    /\ chunks' = delete_chunks_cascade(s, sweep[s].existing, chunks)
    /\ sweep' = [sweep EXCEPT ![s].pc = "create"]
    /\ UNCHANGED <<call, fs, convs, msgs, nextConv, turn, turnsLeft, nextDoc, sweepsLeft>>

\* uq_rag_documents_file_name (alembic 2025_12_30_0002, lines 26-30;
\* RagDocument.file_name unique=True): an insert waits while another open
\* transaction holds an uncommitted row of that name or has deleted the
\* committed one, and fails when a row of that name stands.
NamePending(tx, name) ==
    \E d \in docs :
        /\ d.name = name
        /\ \/ d.tx \notin {Committed, tx}
           \/ d.tx = Committed /\ d.del \notin {NoTx, tx}
\* C14, mutant: a table without the unique constraint on file_name.
NameTaken_NoConstraint(tx, name) == FALSE
NameTaken(tx, name) ==
    \E d \in docs : d.name = name /\ d.tx \in {Committed, tx} /\ d.del # tx

\* _ingest_single_file lines 133-141 with RagRepository.create_document.
\* A name that is taken makes the flush raise IntegrityError: the session's
\* transaction is rolled back, the exception is raised outside the inner
\* try and reaches the loop of ingest_folder, which yields the error event.
CreateDocument(s) ==
    /\ sweep[s].pc = "create"
    /\ ~ NamePending(s, CurrentFile(s))
    /\ IF NameTaken(s, CurrentFile(s))
       THEN /\ docs' = RollbackSweepRows(s, docs)
            /\ chunks' = RollbackSweepRows(s, chunks)
            /\ nextDoc' = nextDoc
            /\ sweep' = [sweep EXCEPT
                           ![s].aborted = TRUE,
                           ![s].doc = 0, ![s].nchunks = 0,
                           ![s].failing = {}, ![s].embeddings = <<>>,
                           ![s].error = "IntegrityError",
                           ![s].events = Append(sweep[s].events,
                               ErrorEvent(sweep[s].total, sweep[s].idx, CurrentFile(s))),
                           ![s].pc = "yield_error"]
       ELSE /\ docs' = docs \cup
                  {[id |-> nextDoc, name |-> CurrentFile(s),
                    hash |-> _compute_file_hash(CurrentFile(s)), folder |-> Root,
                    status |-> "processing", err |-> "none", content |-> FALSE,
                    tx |-> s, del |-> NoTx]}
            /\ nextDoc' = nextDoc + 1
            /\ chunks' = chunks
            /\ sweep' = [sweep EXCEPT ![s].doc = nextDoc, ![s].nchunks = 0,
                                        ![s].failing = {}, ![s].embeddings = <<>>,
                                        ![s].error = "none", ![s].pc = "convert"]
    /\ UNCHANGED <<call, fs, convs, msgs, nextConv, turn, turnsLeft, sweepsLeft>>

\* _ingest_single_file lines 144-151: convert, store the text, chunk.
\* converted = FALSE: the converter raises; n: the number of chunks.
\* C29, mutant: a document that yields no chunk is not refused.
ConvertAndChunk_AllowEmpty(s, converted, n) ==
    /\ sweep[s].pc = "convert"
    /\ docs' = IF converted
               THEN {IF d.id = sweep[s].doc THEN [d EXCEPT !.content = TRUE] ELSE d :
                        d \in docs}
               ELSE docs
    /\ sweep' = [sweep EXCEPT
                   ![s].nchunks = IF converted THEN n ELSE 0,
                   ![s].error = IF ~converted THEN "conversion failed" ELSE "none",
                   ![s].pc = IF converted THEN "embed" ELSE "fail"]
    /\ UNCHANGED <<call, fs, convs, msgs, nextConv, turn, turnsLeft, chunks, nextDoc,
                   sweepsLeft>>
ConvertAndChunk(s, converted, n) ==
    /\ sweep[s].pc = "convert"
    /\ docs' = IF converted
               THEN {IF d.id = sweep[s].doc THEN [d EXCEPT !.content = TRUE] ELSE d :
                        d \in docs}
               ELSE docs
    /\ sweep' = [sweep EXCEPT
                   ![s].nchunks = IF converted THEN n ELSE 0,
                   ![s].error = IF ~converted THEN "conversion failed"
                                ELSE IF n = 0 THEN "No chunks generated from document"
                                ELSE "none",
                   ![s].pc = IF converted /\ n > 0 THEN "embed" ELSE "fail"]
    /\ UNCHANGED <<call, fs, convs, msgs, nextConv, turn, turnsLeft, chunks, nextDoc,
                   sweepsLeft>>

\* EmbeddingService.embed_batch: one vector per text, the provider's vector
\* or, when the call for that text raises, the zero vector.
\* C10, mutant: a batch that never falls back to the zero vector.
embed_batch_NoFallback(n, failing) == [i \in 1 .. n |-> ChunkVector(i)]
embed_batch(n, failing) ==
    [i \in 1 .. n |-> IF i \in failing THEN ZeroVector ELSE ChunkVector(i)]

\* The provider calls that raise during one embed_batch: none, the last one,
\* or all of them.
FailurePatterns(n) == {{}, {n}, 1 .. n}

EmbedChunks(s, failing) ==
    /\ sweep[s].pc = "embed"
    /\ sweep' = [sweep EXCEPT
                   ![s].failing = failing,
                   ![s].embeddings = embed_batch(sweep[s].nchunks, failing),
                   ![s].pc = "store"]
    /\ UNCHANGED <<call, fs, dbVars, turn, turnsLeft, sweepsLeft>>

\* C13, mutant: a batch that stores only the first chunk.
create_chunks_batch_FirstOnly(tx, doc_id, n, embeddings) ==
    {[doc |-> doc_id, idx |-> 0, emb |-> embeddings[1], hasEmb |-> TRUE,
      tx |-> tx, del |-> NoTx]}

\* C24, mutant: the vectors attached to the chunks in reverse order.
create_chunks_batch_Reversed(tx, doc_id, n, embeddings) ==
    {[doc |-> doc_id, idx |-> i - 1, emb |-> embeddings[n + 1 - i], hasEmb |-> TRUE,
      tx |-> tx, del |-> NoTx] : i \in 1 .. n}

\* _ingest_single_file lines 156-159 with RagRepository.create_chunks_batch.
create_chunks_batch(tx, doc_id, n, embeddings) ==
    {[doc |-> doc_id, idx |-> i - 1, emb |-> embeddings[i], hasEmb |-> TRUE,
      tx |-> tx, del |-> NoTx] : i \in 1 .. n}

StoreChunks(s) ==
    /\ sweep[s].pc = "store"
    /\ chunks' = chunks \cup
          create_chunks_batch(s, sweep[s].doc, sweep[s].nchunks, sweep[s].embeddings)
    /\ sweep' = [sweep EXCEPT ![s].pc = "complete"]
    /\ UNCHANGED <<call, fs, convs, msgs, nextConv, turn, turnsLeft, docs, nextDoc,
                   sweepsLeft>>

\* C11, mutant: a status update that drops the error message.
update_document_status_NoMessage(doc_id, status, error_message, rows) ==
    {IF d.id = doc_id THEN [d EXCEPT !.status = status] ELSE d : d \in rows}

\* C19, mutant: an update without its WHERE clause.
update_document_status_AllRows(doc_id, status, error_message, rows) ==
    {[d EXCEPT !.status = status, !.err = error_message] : d \in rows}

\* RagRepository.update_document_status.
update_document_status(doc_id, status, error_message, rows) ==
    {IF d.id = doc_id THEN [d EXCEPT !.status = status, !.err = error_message]
     ELSE d : d \in rows}

\* The loop of ingest_folder after a file: the next progress event, or the
\* completion event after the last file (lines 93-122).
NextEvent(s) ==
    IF sweep[s].idx + 1 < sweep[s].total
    THEN ProgressEvent(sweep[s].total, sweep[s].idx + 1, sweep[s].files[sweep[s].idx + 2])
    ELSE CompleteEvent(sweep[s].total, sweep[s].total)

Advance(s, record) ==
    [record EXCEPT
       !.idx = sweep[s].idx + 1,
       !.events = Append(sweep[s].events, NextEvent(s)),
       !.pc = IF sweep[s].idx + 1 < sweep[s].total THEN "yield_progress"
              ELSE "yield_complete"]

\* _ingest_single_file lines 160-162, then the next yield of ingest_folder.
MarkCompleted(s) ==
    /\ sweep[s].pc = "complete"
    /\ docs' = update_document_status(sweep[s].doc, "completed", "none", docs)
    /\ sweep' = [sweep EXCEPT ![s] = Advance(s, sweep[s])]
    /\ UNCHANGED <<call, fs, convs, msgs, nextConv, turn, turnsLeft, chunks, nextDoc,
                   sweepsLeft>>

\* C8, mutant: the exception of the file leaves ingest_folder, the sweep ends
\* without another event.
MarkFailed_Abort(s) ==
    /\ sweep[s].pc = "fail"
    /\ docs' = update_document_status(sweep[s].doc, "failed", sweep[s].error, docs)
    /\ sweep' = [sweep EXCEPT ![s].pc = "done"]
    /\ UNCHANGED <<call, fs, convs, msgs, nextConv, turn, turnsLeft, chunks, nextDoc,
                   sweepsLeft>>

\* _ingest_single_file lines 164-169 and ingest_folder lines 105-114: the
\* document is marked failed, the exception reaches the loop, which yields
\* the error event.
MarkFailed(s) ==
    /\ sweep[s].pc = "fail"
    /\ docs' = update_document_status(sweep[s].doc, "failed", sweep[s].error, docs)
    /\ sweep' = [sweep EXCEPT
                   ![s].events = Append(sweep[s].events,
                       ErrorEvent(sweep[s].total, sweep[s].idx, CurrentFile(s))),
                   ![s].pc = "yield_error"]
    /\ UNCHANGED <<call, fs, convs, msgs, nextConv, turn, turnsLeft, chunks, nextDoc,
                   sweepsLeft>>

\* RagService.ingest_folder lines 61-62 for an error event: no commit; the
\* inner generator goes on to the next yield.
ResumeAfterError(s) ==
    /\ sweep[s].pc = "yield_error"
    /\ sweep' = [sweep EXCEPT ![s] = Advance(s, sweep[s])]
    /\ UNCHANGED <<call, fs, dbVars, turn, turnsLeft, sweepsLeft>>

\* RagService.ingest_folder lines 61-63 for the completion event: commit; both
\* generators end.
ResumeAfterComplete(s) ==
    /\ sweep[s].pc = "yield_complete"
    /\ docs' = IF sweep[s].aborted THEN docs ELSE CommitSweepRows(s, docs)
    /\ chunks' = IF sweep[s].aborted THEN chunks ELSE CommitSweepRows(s, chunks)
    /\ sweep' = [sweep EXCEPT ![s] =
          IF sweep[s].aborted THEN AbortStream(s)
          ELSE [IdleSweep EXCEPT !.pc = "done", !.files = sweep[s].files,
                                 !.total = sweep[s].total, !.idx = sweep[s].idx,
                                 !.existing = sweep[s].existing,
                                 !.events = sweep[s].events]]
    /\ UNCHANGED <<call, fs, convs, msgs, nextConv, turn, turnsLeft, nextDoc, sweepsLeft>>

\* The steps of a sweep that has started: the consumer of the streaming
\* response keeps reading, the generators run to their end.
SweepRun(s) ==
    \/ ResumeAfterProgress(s)
    \/ LookupExisting(s)
    \/ DeleteExisting(s)
    \/ CreateDocument(s)
    \/ \E converted \in BOOLEAN, n \in 0 .. MaxChunks : ConvertAndChunk(s, converted, n)
    \/ \E failing \in FailurePatterns(sweep[s].nchunks) : EmbedChunks(s, failing)
    \/ StoreChunks(s)
    \/ MarkCompleted(s)
    \/ MarkFailed(s)
    \/ ResumeAfterError(s)
    \/ ResumeAfterComplete(s)

\* The files whose Document is completed in the sweep's own view: what
\* _ingest_single_file has brought to "completed" so far, committed or not.
ReachedCompleted(s) ==
    {d.name : d \in {x \in VisibleDocs(s) :
                     /\ x.status = "completed"
                     /\ \E i \in 1 .. Len(sweep[s].files) :
                           i <= sweep[s].idx /\ sweep[s].files[i] = x.name}}

\* The consumer of the streaming response stops reading (api/v1/rag.py
\* 50-68): the generators are closed where they stand, at a yield or at an
\* await inside a file, and the request's session is closed uncommitted.
Interrupt(s) ==
    /\ sweep[s].pc \notin {"idle", "done", "interrupted"}
    /\ docs' = RollbackSweepRows(s, docs)
    /\ chunks' = RollbackSweepRows(s, chunks)
    /\ sweep' = [sweep EXCEPT ![s] =
          [IdleSweep EXCEPT !.pc = "interrupted", !.files = sweep[s].files,
                            !.total = sweep[s].total, !.idx = sweep[s].idx,
                            !.reached = ReachedCompleted(s),
                            !.events = sweep[s].events]]
    /\ UNCHANGED <<call, fs, convs, msgs, nextConv, turn, turnsLeft, nextDoc, sweepsLeft>>

SweepStep(s) ==
    \/ \E present \in SUBSET FileNames : StartSweep(s, present)
    \/ SweepRun(s)

\* ------------------------------------------------------- specifications
\* The store as one sweep over file 1 (two chunks, the provider failing for
\* the second) and one chat turn on a new conversation leave it.
SeedDocs ==
    {[id |-> 1, name |-> 1, hash |-> 1, folder |-> Root, status |-> "completed",
      err |-> "none", content |-> TRUE, tx |-> Committed, del |-> NoTx]}
SeedChunks ==
    {[doc |-> 1, idx |-> 0, emb |-> 1, hasEmb |-> TRUE, tx |-> Committed, del |-> NoTx],
     [doc |-> 1, idx |-> 1, emb |-> ZeroVector, hasEmb |-> TRUE, tx |-> Committed,
      del |-> NoTx]}
SeedConvs ==
    {[id |-> 1, folder |-> Root, title |-> DeriveTitle("hi"), active |-> TRUE,
      tx |-> Committed]}
\* The messages of conversation 1 in (created_at, id) order; the migration
\* that added the sequence column numbered the rows of each conversation
\* with ROW_NUMBER() in that order (alembic 2025_12_30_0003, lines 24-40).
SeedExchange ==
    <<[role |-> "user", content |-> "hi", sources |-> <<>>],
      [role |-> "assistant", content |-> "answer", sources |-> <<<<1, 0>>>>]>>
upgrade(conv, rows) ==
    {[id |-> MessageId(0, rows[i].role), conv |-> conv, seq |-> i, role |-> rows[i].role, content |-> rows[i].content,
      sources |-> rows[i].sources, tx |-> Committed] : i \in 1 .. Len(rows)}
SeedMsgs == upgrade(1, SeedExchange)

InitRows ==
    /\ convs = SeedConvs
    /\ msgs = SeedMsgs
    /\ docs = SeedDocs
    /\ chunks = SeedChunks
    /\ nextConv = 2
    /\ nextDoc = 2
    /\ turn = [t \in Turns |-> IdleTurn]
    /\ sweep = [s \in Sweepers |-> IdleSweep]
    /\ fs = OwnContents

InitStore ==
    /\ InitRows
    /\ call = NoCall

Init ==
    /\ InitStore
    /\ turnsLeft = MaxTurns
    /\ sweepsLeft = MaxSweeps

NextChat ==
    \/ \E t \in Turns : ChatStep(t)
    \/ \E cid \in ConvIds : DeleteConversation(cid)

NextSweep == SweepStep(FirstSweeper)

Next == (\E t \in Turns : ChatStep(t)) \/ NextSweep

\* rag_chunks.embedding is nullable (models/postgres/rag.py 62-64) and
\* RagRepository.create_chunk stores no embedding unless one is passed: the
\* store may hold chunks without an embedding.
\* RagRepository.create_document stores status "pending" unless told otherwise:
\* the store may also hold a document that never reached completed, with chunks.
LegacyDocs ==
    {[id |-> 0, name |-> 0, hash |-> 0, folder |-> Root, status |-> "pending",
      err |-> "none", content |-> TRUE, tx |-> Committed, del |-> NoTx]}
LegacyChunks ==
    {[doc |-> 0, idx |-> 0, emb |-> 1, hasEmb |-> TRUE, tx |-> Committed, del |-> NoTx],
     [doc |-> 1, idx |-> 2, emb |-> ZeroVector, hasEmb |-> FALSE, tx |-> Committed,
      del |-> NoTx]}

InitSystem ==
    /\ convs = SeedConvs
    /\ msgs = SeedMsgs
    /\ docs = SeedDocs \cup LegacyDocs
    /\ chunks = SeedChunks \cup LegacyChunks
    /\ nextConv = 2
    /\ nextDoc = 2
    /\ turn = [t \in Turns |-> IdleTurn]
    /\ sweep = [s \in Sweepers |-> IdleSweep]
    /\ fs = OwnContents
    /\ call = NoCall
    /\ turnsLeft = 1
    /\ sweepsLeft = 1

\* One chat request interleaved with one sweep.
Spec == InitSystem /\ [][Next]_vars
\* Concurrent chat requests and soft deletes.
SpecChat == Init /\ [][NextChat]_vars
\* Sweeps over the documents root.
SpecSweep == Init /\ [][NextSweep]_vars
\* Sweeps whose consumer may stop reading at any point.
NextSweepStop == SweepStep(FirstSweeper) \/ Interrupt(FirstSweeper)
SpecSweepStop == Init /\ [][NextSweepStop]_vars
\* One sweep whose consumer reads the stream to its end: once started it is
\* resumed until its generators return.
InitSweep ==
    /\ InitStore
    /\ turnsLeft = 0
    /\ sweepsLeft = 1
\* Two ingestion requests at a time, each with its own session.
InitSweepPair ==
    /\ InitStore
    /\ turnsLeft = 0
    /\ sweepsLeft = 2
\* Both requests sweep the same root, which holds the first k files; a file
\* converts or not and gives one chunk, the provider answers.
SweepPairStep(s) ==
    \/ \E k \in 1 .. MaxFiles : StartSweep(s, 1 .. k)
    \/ ResumeAfterProgress(s)
    \/ LookupExisting(s)
    \/ DeleteExisting(s)
    \/ CreateDocument(s)
    \/ \E converted \in BOOLEAN : ConvertAndChunk(s, converted, 1)
    \/ EmbedChunks(s, {})
    \/ StoreChunks(s)
    \/ MarkCompleted(s)
    \/ MarkFailed(s)
    \/ ResumeAfterError(s)
    \/ ResumeAfterComplete(s)
NextSweepPair == \E s \in Sweepers : SweepPairStep(s)
SpecSweepPair == InitSweepPair /\ [][NextSweepPair]_vars
SpecSweepFair ==
    InitSweep /\ [][NextSweep]_vars /\ \A s \in Sweepers : WF_vars(SweepRun(s))

\* One chat request on a store that also holds a conversation recorded
\* under a former documents root and one whose folder was never recorded;
\* the arguments of the request are kept in call.
OtherConvs ==
    {[id |-> 2, folder |-> "old", title |-> DeriveTitle("hi"), active |-> TRUE,
      tx |-> Committed],
     [id |-> 3, folder |-> "none", title |-> NoTitle, active |-> TRUE,
      tx |-> Committed]}
UnknownConv == 4
ScopeStore ==
    /\ convs = SeedConvs \cup OtherConvs
    /\ msgs = SeedMsgs
    /\ docs = SeedDocs
    /\ chunks = SeedChunks
    /\ nextConv = UnknownConv
    /\ nextDoc = 2
    /\ turn = [t \in Turns |-> IdleTurn]
    /\ sweep = [s \in Sweepers |-> IdleSweep]
    /\ fs = OwnContents
InitChatCall ==
    /\ ScopeStore
    /\ turnsLeft = 1
    /\ sweepsLeft = 0
    /\ \E cid \in NoConv .. UnknownConv, f \in FolderArgs :
          call = [op |-> "chat",
                  args |-> [conversation_id |-> cid, folder_path |-> f],
                  result |-> <<>>, returned |-> FALSE]
ChatCallStep(t) ==
    \/ StartChat(t, call.args.conversation_id, call.args.folder_path, "hi")
    \/ \E outcome \in {"ok", "embed_error", "search_error"} : Retrieve(t, outcome)
    \/ \E ok \in BOOLEAN : Generate(t, ok)
    \/ \E role \in {"user", "assistant"} : SelectNextSequence(t, role)
    \/ \E role \in {"user", "assistant"} : InsertMessage(t, role)
    \/ CommitTurn(t)
    \/ UpdateTitle(t)
NextChatCall ==
    \/ \E t \in Turns : ChatCallStep(t)
    \/ \E cid \in 1 .. UnknownConv : DeleteConversation(cid)
SpecChatCall == InitChatCall /\ [][NextChatCall]_vars

\* Chat requests with any conversation id and folder argument on that
\* store, with soft deletes; retrieval and generation succeed.
InitChatScope ==
    /\ ScopeStore
    /\ turnsLeft = MaxTurns
    /\ sweepsLeft = 0
    /\ call = NoCall
ChatScopeStep(t) ==
    \/ \E cid \in NoConv .. UnknownConv, f \in FolderArgs : StartChat(t, cid, f, "hi")
    \/ Retrieve(t, "ok")
    \/ Generate(t, TRUE)
    \/ \E role \in {"user", "assistant"} : SelectNextSequence(t, role)
    \/ \E role \in {"user", "assistant"} : InsertMessage(t, role)
    \/ CommitTurn(t)
    \/ UpdateTitle(t)
NextChatScope ==
    \/ \E t \in Turns : ChatScopeStep(t)
    \/ \E cid \in 1 .. UnknownConv : DeleteConversation(cid)
SpecChatScope == InitChatScope /\ [][NextChatScope]_vars

\* One request with a folder path: list-folder, ingest-folder,
\* document-status or chat on a new conversation.  present: the files in
\* the documents root.
FolderOps == {"list_folder", "ingest_folder", "document_status", "chat"}
InitFolderCall ==
    /\ InitRows
    /\ turnsLeft = 1
    /\ sweepsLeft = 1
    /\ \E op \in FolderOps, f \in FolderArgs, present \in SUBSET FileNames :
          call = [op |-> op,
                  args |-> [folder_path |-> f, present |-> present],
                  result |-> <<>>, returned |-> FALSE]

\* RagService.list_folder with the endpoint list_folder_documents.
ListFolder ==
    /\ call.op = "list_folder"
    /\ ~ call.returned
    /\ call' = [call EXCEPT
                  !.result = IF NormalizeOk(call.args.folder_path)
                             THEN [status |-> 200,
                                   body |-> list_folder_files(call.args.present)]
                             ELSE [status |-> 400, body |-> <<>>],
                  !.returned = TRUE]
    /\ UNCHANGED <<fs, dbVars, turn, sweep, turnsLeft, sweepsLeft>>

\* IngestionService.get_document_status: the documents of the folder in
\* file-name order, each with its status and its number of chunks.
get_document_status(tx) ==
    LET found == {d \in VisibleDocs(tx) : d.folder = Root}
        names == SortByName({d.name : d \in found})
    IN [i \in 1 .. Len(names) |->
          LET d == CHOOSE x \in found : x.name = names[i]
          IN [file_name |-> d.name, status |-> d.status,
              chunk_count |-> get_chunk_count_by_document(tx, d.id),
              error_message |-> d.err]]

\* RagService.get_document_status with the endpoint get_document_status.
DocumentStatus ==
    /\ call.op = "document_status"
    /\ ~ call.returned
    /\ call' = [call EXCEPT
                  !.result = IF NormalizeOk(call.args.folder_path)
                             THEN [status |-> 200,
                                   body |-> get_document_status(Committed)]
                             ELSE [status |-> 400, body |-> <<>>],
                  !.returned = TRUE]
    /\ UNCHANGED <<fs, dbVars, turn, sweep, turnsLeft, sweepsLeft>>

\* RagService.ingest_folder line 59 under the endpoint's event_generator:
\* normalize_folder_path raises before the first event, the stream carries
\* the one error event of the ValueError and ends.
RefuseSweep(s) ==
    /\ sweep[s].pc = "idle"
    /\ sweepsLeft > 0
    /\ sweepsLeft' = sweepsLeft - 1
    /\ sweep' = [sweep EXCEPT ![s] =
          [IdleSweep EXCEPT !.pc = "done", !.events = <<ValidationErrorEvent>>]]
    /\ UNCHANGED <<call, fs, dbVars, turn, turnsLeft>>

IngestFolder(s) ==
    /\ call.op = "ingest_folder"
    /\ IF NormalizeOk(call.args.folder_path)
       THEN StartSweep(s, call.args.present)
       ELSE RefuseSweep(s)

FolderCallStep ==
    \/ ListFolder
    \/ DocumentStatus
    \/ IngestFolder(FirstSweeper)
    \/ SweepRun(FirstSweeper)
    \/ \E t \in Turns :
          \/ call.op = "chat" /\ StartChat(t, NoConv, call.args.folder_path, "hi")
          \/ Retrieve(t, "ok")
          \/ Generate(t, TRUE)
          \/ \E role \in {"user", "assistant"} : SelectNextSequence(t, role)
          \/ \E role \in {"user", "assistant"} : InsertMessage(t, role)
          \/ CommitTurn(t)
          \/ UpdateTitle(t)
SpecFolderCall == InitFolderCall /\ [][FolderCallStep]_vars

\* Sweeps over a root whose files may hold the same bytes: the content
\* hash of each file is any of Hashes, the stored Document of file 1 has
\* hash 1.
Hashes == 1 .. MaxFiles
InitSweepHash ==
    /\ convs = SeedConvs
    /\ msgs = SeedMsgs
    /\ docs = SeedDocs
    /\ chunks = SeedChunks
    /\ nextConv = 2
    /\ nextDoc = 2
    /\ turn = [t \in Turns |-> IdleTurn]
    /\ sweep = [s \in Sweepers |-> IdleSweep]
    /\ fs \in [FileNames -> Hashes]
    /\ call = NoCall
    /\ turnsLeft = 0
    /\ sweepsLeft = 1
SpecSweepHash == InitSweepHash /\ [][NextSweep]_vars

\* One DELETE /conversations/{id} request, kept in call, beside one chat
\* request: the row found has its flag cleared and is committed (200), an
\* id the session does not find is answered 404.
DeleteCall ==
    /\ call.op = "delete_conversation"
    /\ ~ call.returned
    /\ LET found == {c \in convs : c.id = call.args.conversation_id /\ c.tx = Committed}
       IN /\ convs' = IF found = {} THEN convs
                      ELSE delete_conversation(call.args.conversation_id, convs)
          /\ call' = [call EXCEPT
                        !.result = [status |-> IF found = {} THEN 404 ELSE 200],
                        !.returned = TRUE]
    /\ UNCHANGED <<fs, msgs, docs, chunks, nextConv, nextDoc, turn, sweep, turnsLeft,
                   sweepsLeft>>
InitDeleteCall ==
    /\ ScopeStore
    /\ turnsLeft = 1
    /\ sweepsLeft = 0
    /\ \E cid \in 1 .. UnknownConv :
          call = [op |-> "delete_conversation", args |-> [conversation_id |-> cid],
                  result |-> <<>>, returned |-> FALSE]
NextDeleteCall ==
    \/ DeleteCall
    \/ \E t \in Turns : ChatScopeStep(t)
SpecDeleteCall == InitDeleteCall /\ [][NextDeleteCall]_vars

\* Chat requests that name a stored conversation and give no folder, in a
\* store whose first conversation was soft-deleted before; further deletes
\* may come at any time.
InitChatDeleted ==
    /\ convs = delete_conversation(1, SeedConvs \cup OtherConvs)
    /\ msgs = SeedMsgs
    /\ docs = SeedDocs
    /\ chunks = SeedChunks
    /\ nextConv = UnknownConv
    /\ nextDoc = 2
    /\ turn = [t \in Turns |-> IdleTurn]
    /\ sweep = [s \in Sweepers |-> IdleSweep]
    /\ fs = OwnContents
    /\ turnsLeft = MaxTurns
    /\ sweepsLeft = 0
    /\ call = NoCall
ChatDeletedStep(t) ==
    \/ \E c \in convs : StartChat(t, c.id, "none", "hi")
    \/ Retrieve(t, "ok")
    \/ Generate(t, TRUE)
    \/ \E role \in {"user", "assistant"} : SelectNextSequence(t, role)
    \/ \E role \in {"user", "assistant"} : InsertMessage(t, role)
    \/ CommitTurn(t)
    \/ UpdateTitle(t)
NextChatDeleted ==
    \/ \E t \in Turns : ChatDeletedStep(t)
    \/ \E c \in convs : DeleteConversation(c.id)
SpecChatDeleted == InitChatDeleted /\ [][NextChatDeleted]_vars

\* Chat requests whose message is short, exactly as long as a title may be,
\* or one character longer; retrieval and generation succeed.
TitleTexts == {"hi", AtLimit, OverLimit}
ChatTitleStep(t) ==
    \/ \E cid \in {NoConv} \cup ConvIds, m \in TitleTexts : StartChat(t, cid, "none", m)
    \/ Retrieve(t, "ok")
    \/ Generate(t, TRUE)
    \/ \E role \in {"user", "assistant"} : SelectNextSequence(t, role)
    \/ \E role \in {"user", "assistant"} : InsertMessage(t, role)
    \/ CommitTurn(t)
    \/ UpdateTitle(t)
NextChatTitle == \E t \in Turns : ChatTitleStep(t)
SpecChatTitle == Init /\ [][NextChatTitle]_vars

\* One GET /documents/status request for the root, kept in call, at any
\* point of a sweep.
InitStatusRead ==
    /\ InitRows
    /\ turnsLeft = 0
    /\ sweepsLeft = 1
    /\ \E f \in {"none", Root} :
          call = [op |-> "document_status",
                  args |-> [folder_path |-> f, present |-> {}],
                  result |-> <<>>, returned |-> FALSE]
NextStatusRead == DocumentStatus \/ SweepStep(FirstSweeper)
SpecStatusRead == InitStatusRead /\ [][NextStatusRead]_vars

\* One call of embed_batch on a list of texts.
InitEmbed ==
    /\ convs = {} /\ msgs = {} /\ docs = {} /\ chunks = {}
    /\ nextConv = 1 /\ nextDoc = 1
    /\ turn = [t \in Turns |-> IdleTurn]
    /\ sweep = [s \in Sweepers |-> IdleSweep]
    /\ fs = OwnContents
    /\ turnsLeft = 0 /\ sweepsLeft = 0
    /\ \E texts \in TextLists, batch_size \in 1 .. MaxBatch :
          \E failing \in SUBSET (1 .. Len(texts)) :
             call = [op |-> "embed_batch",
                     args |-> [texts |-> texts, batch_size |-> batch_size,
                               failing |-> failing],
                     result |-> <<>>, returned |-> FALSE]

EmbedBatch ==
    /\ call.op = "embed_batch"
    /\ ~ call.returned
    /\ call' = [call EXCEPT
                  !.result = embed_many(call.args.texts, call.args.batch_size,
                                        call.args.failing),
                  !.returned = TRUE]
    /\ UNCHANGED <<fs, dbVars, turn, sweep, turnsLeft, sweepsLeft>>

SpecEmbed == InitEmbed /\ [][EmbedBatch]_vars

\* ------------------------------------------------------------- properties
CommittedMessages(conv) == {m \in msgs : m.conv = conv /\ m.tx = Committed}
Appending(t) == turn[t].pc \in {"insert_user", "insert_assistant"}
LastEvent(s) == sweep[s].events[Len(sweep[s].events)]

\* C1: two appends that run concurrently on one conversation are both
\* persisted and are never assigned the same sequence value.
C1_ConcurrentAppendsDistinct ==
    /\ \A a, b \in Turns :
          (a # b /\ Appending(a) /\ Appending(b) /\ turn[a].conv = turn[b].conv)
              => turn[a].nextSeq # turn[b].nextSeq
    /\ \A t \in Turns : turn[t].err # "IntegrityError"

\* C2: in every reachable state the persisted messages of each conversation
\* carry exactly the sequence numbers 1..N, each of them once.
C2_SequencesGapless ==
    \A conv \in {m.conv : m \in msgs} :
        LET rows == CommittedMessages(conv)
        IN {m.seq : m \in rows} = 1 .. Cardinality(rows)

\* C2, witness: two turns raced on one conversation (one was rejected by the
\* constraint), the conversation was soft-deleted and holds two exchanges.
C2_RaceAndSoftDelete ==
    \E t \in Turns, c \in convs :
        /\ turn[t].err = "IntegrityError"
        /\ ~c.active
        /\ Cardinality(CommittedMessages(c.id)) = 4

\* C3: the commit of a chat turn adds exactly two messages to the persisted
\* messages of its conversation: the user message with the next sequence
\* number and no sources, and the assistant message with the number after it
\* and the chunk ids retrieved in the turn; for a turn given no conversation
\* id these are the sequences 1 and 2 of a new conversation on the root folder.
C3_TurnAppendsExchange ==
    [][\A t \in Turns :
          (turn[t].pc = "commit" /\ turn'[t].pc \in {"title", "done"}) =>
             LET conv == turn[t].conv
                 before == CommittedMessages(conv)
                 after == {m \in msgs' : m.conv = conv /\ m.tx = Committed}
                 next == Max({m.seq : m \in before}) + 1
                 user == [id |-> MessageId(turn[t].req, "user"), conv |-> conv,
                          seq |-> next, role |-> "user", content |-> turn[t].msg,
                          sources |-> <<>>, tx |-> Committed]
                 assistant ==
                         [id |-> MessageId(turn[t].req, "assistant"), conv |-> conv,
                          seq |-> next + 1, role |-> "assistant",
                          content |-> turn[t].answer, sources |-> turn[t].sources,
                          tx |-> Committed]
             IN /\ after = before \cup {user, assistant}
                /\ Cardinality(after) = Cardinality(before) + 2
                /\ turn[t].cid = NoConv =>
                      /\ next = 1
                      /\ ~ \E c \in convs : c.id = conv /\ c.tx = Committed
                      /\ \E c \in convs' :
                            c.id = conv /\ c.tx = Committed /\ c.folder = Root
      ]_vars

\* C3, witness: a turn given no conversation id has committed its exchange,
\* with retrieved chunks as the sources of the assistant message.
C3_NewConversationCommitted ==
    \E t \in Turns :
        /\ turn[t].pc = "title"
        /\ turn[t].cid = NoConv
        /\ turn[t].sources # <<>>
        /\ \E m \in CommittedMessages(turn[t].conv) :
              m.seq = 2 /\ m.role = "assistant" /\ m.sources = turn[t].sources

\* C4: a chat turn whose retrieve stage threw does not fail.
C4_RetrieveFailureTolerated ==
    \A t \in Turns : turn[t].retrieveErr # "none" => turn[t].pc # "failed"

\* C5: a chat turn whose only fault is a throwing chat provider does not
\* fail: it completes with the fallback answer.
C5_GenerateFailureTolerated ==
    \A t \in Turns :
        (turn[t].generateFailed /\ turn[t].retrieveErr = "none")
            => turn[t].pc # "failed"

\* C6: in every state an ingestion sweep and a chat request can reach
\* together, the search of a reader (a session that has written no document
\* and no chunk, with or without a folder scope) returns only chunks that have
\* an embedding and whose document is completed.
C6_RetrievalOnlyCompletedEmbedded ==
    \A f \in {"none", Root} :
        LET found == vector_search(Committed, QueryVector("hi"), f, top_k,
                                   similarity_threshold)
        IN \A i \in 1 .. Len(found) :
              /\ found[i].hasEmb
              /\ \E d \in docs :
                    d.id = found[i].doc /\ d.tx = Committed /\ d.status = "completed"

\* C6, witness: a turn retrieved chunks of document 1 while a sweep that is
\* re-ingesting its file has deleted it and not yet committed.
C6_RetrievedDuringReingestion ==
    \E t \in Turns, s \in Sweepers :
        /\ turn[t].pc = "generate"
        /\ turn[t].sources # <<>>
        /\ sweep[s].existing = 1
        /\ sweep[s].pc \in {"convert", "embed", "store", "complete", "fail"}

\* C7: every stored chunk belongs to a stored document, in the committed
\* store and in the view of a running sweep; once a sweep has deleted the
\* document that held a file's name, no chunk of that document is left.
C7_NoOrphanChunks ==
    /\ \A tx \in Sweepers \cup {Committed} :
          \A c \in VisibleChunks(tx) : \E d \in VisibleDocs(tx) : d.id = c.doc
    /\ \A s \in Sweepers :
          (sweep[s].existing # 0 /\ sweep[s].pc # "delete") =>
              /\ ~ \E c \in VisibleChunks(s) : c.doc = sweep[s].existing
              /\ ~ \E d \in VisibleDocs(s) : d.id = sweep[s].existing
              /\ sweep[s].pc \in {"lookup", "done"} =>
                    ~ \E c \in chunks : c.doc = sweep[s].existing

\* C7, witness: a sweep has re-ingested file 1; a new document with chunks
\* holds the name.
C7_Reingested ==
    \E s \in Sweepers, d \in docs, c \in chunks :
        /\ sweep[s].pc = "done"
        /\ sweep[s].existing = 1
        /\ d.name = 1 /\ d.id # 1 /\ d.tx = Committed
        /\ c.doc = d.id /\ c.tx = Committed

C9_EventStream ==
    \A s \in Sweepers :
        sweep[s].pc # "idle" =>
           LET ev == sweep[s].events
               files == sweep[s].files
               N == sweep[s].total
               NotError(e) == e.type # "error"
               plain == SelectSeq(ev, NotError)
               expected == [i \in 1 .. N + 1 |->
                               IF i <= N THEN ProgressEvent(N, i - 1, files[i])
                               ELSE CompleteEvent(N, N)]
           IN /\ N = Len(files)
              /\ \A i, j \in 1 .. N : i < j => files[i] < files[j]
              /\ Len(plain) \in 1 .. N + 1
              /\ plain = SubSeq(expected, 1, Len(plain))
              /\ \A k \in 1 .. Len(ev) :
                    ev[k].type = "error" =>
                       /\ k > 1
                       /\ ev[k - 1].type = "progress"
                       /\ ev[k] = ErrorEvent(N, ev[k - 1].processed, ev[k - 1].file)
              /\ sweep[s].pc \in {"lookup", "delete", "create", "convert", "embed",
                                  "store", "complete", "fail"} =>
                    LastEvent(s) = ProgressEvent(N, sweep[s].idx, CurrentFile(s))
              /\ sweep[s].pc \in {"yield_complete", "done"} <=>
                    LastEvent(s).type = "complete"
              /\ N = 0 => ev = <<CompleteEvent(0, 0)>>

\* C9, witness: a sweep over two files has ended; the second file failed.
C9_TwoFilesSecondFailed ==
    \E s \in Sweepers :
        /\ sweep[s].pc = "done"
        /\ Len(sweep[s].events) = 4
        /\ sweep[s].events[3].type = "error"
        /\ sweep[s].events[3].file = 2

\* C10, as claimed: a file for whose chunk texts the embedding provider
\* failed ends with a failed Document that carries the error.
C10_ProviderFailureFailsDocument ==
    \A s \in Sweepers :
        (sweep[s].failing # {} /\ sweep[s].pc \in {"yield_progress", "yield_complete"}) =>
            \E d \in VisibleDocs(s) :
                d.id = sweep[s].doc /\ d.status = "failed" /\ d.err # "none"

\* C10, amended: a provider failure for chunk texts of a file is not
\* surfaced: the affected chunks are stored with the zero vector, the others
\* with the provider's vector, the Document ends completed without an error
\* message, no error event names the file, and the sweep goes on.
C10_ProviderFailureDegrades ==
    \A s \in Sweepers :
        (sweep[s].failing # {} /\ sweep[s].pc \in {"yield_progress", "yield_complete"}) =>
            LET ev == sweep[s].events
                stored == {c \in VisibleChunks(s) : c.doc = sweep[s].doc}
            IN /\ \E d \in VisibleDocs(s) :
                     d.id = sweep[s].doc /\ d.status = "completed" /\ d.err = "none"
               /\ {c.idx : c \in stored} = 0 .. sweep[s].nchunks - 1
               /\ \A c \in stored :
                     /\ c.hasEmb
                     /\ c.emb = IF c.idx + 1 \in sweep[s].failing THEN ZeroVector
                                ELSE ChunkVector(c.idx + 1)
               /\ ev[Len(ev) - 1] =
                     ProgressEvent(sweep[s].total, sweep[s].idx - 1,
                                   sweep[s].files[sweep[s].idx])
               /\ ev[Len(ev)].type \in {"progress", "complete"}

\* C10, witness: the provider failed for a chunk of a file, the file's
\* Document is completed and the sweep has announced the next file.
C10_DegradedAndContinued ==
    \E s \in Sweepers, d \in docs :
        /\ sweep[s].failing # {}
        /\ sweep[s].pc = "yield_progress"
        /\ d.id = sweep[s].doc
        /\ d.status = "completed"

\* C11: a file whose conversion raised, or for which the chunker gave no
\* chunk, has a Document with status failed and an error message (the "no
\* chunks generated" text when the text was converted), no chunk is stored for
\* it and embed_batch was not called for it.
C11_FailedFileStoresNothing ==
    \A s \in Sweepers :
        (sweep[s].error # "none"
            /\ sweep[s].pc \in {"yield_error", "yield_progress", "yield_complete"}) =>
            /\ \E d \in VisibleDocs(s) :
                  /\ d.id = sweep[s].doc
                  /\ d.status = "failed"
                  /\ d.err # "none"
                  /\ d.content <=> d.err = "No chunks generated from document"
            /\ ~ \E c \in chunks : c.doc = sweep[s].doc
            /\ sweep[s].embeddings = <<>>
            /\ sweep[s].failing = {}

\* C11, witness: the chunker gave no chunk for a converted file; the error
\* event is out.
C11_ZeroChunksFailed ==
    \E s \in Sweepers, d \in docs :
        /\ sweep[s].pc = "yield_error"
        /\ d.id = sweep[s].doc
        /\ d.content
        /\ d.status = "failed"

\* C12: after a sweep was interrupted, every file its processing had
\* brought to completed before the interruption has a Document stored,
\* committed, as completed with chunks.
C12_CompletedSurvivesInterruption ==
    \A s \in Sweepers :
        sweep[s].pc = "interrupted" =>
            \A name \in sweep[s].reached :
                \E d \in docs, c \in chunks :
                    /\ d.name = name /\ d.tx = Committed /\ d.status = "completed"
                    /\ c.doc = d.id /\ c.tx = Committed

\* C13: what a reader sees of the chunks of a Document (the committed rows)
\* is never a part of them: for the Document a sweep is ingesting it is no
\* chunk at all or every chunk the chunker gave, and for every Document it is
\* no chunk or every chunk stored for it.
C13_ChunksVisibleTogether ==
    /\ \A id \in {c.doc : c \in chunks} :
          get_chunk_count_by_document(Committed, id)
              \in {0, Cardinality({c \in chunks : c.doc = id})}
    /\ \A s \in Sweepers :
          sweep[s].pc \in {"complete", "yield_progress", "yield_complete", "lookup"}
              /\ sweep[s].nchunks > 0 /\ sweep[s].error = "none" =>
             LET seen == {c \in VisibleChunks(Committed) : c.doc = sweep[s].doc}
             IN /\ seen = {} \/ {c.idx : c \in seen} = 0 .. sweep[s].nchunks - 1
                /\ sweep[s].pc = "lookup" => seen # {}
                /\ sweep[s].pc = "complete" => seen = {}

\* C13, witness: a sweep has stored the two chunks of a file and marked its
\* Document completed; nothing is committed yet and a reader sees no chunk.
C13_StoredNotYetVisible ==
    \E s \in Sweepers :
        /\ sweep[s].pc = "yield_progress"
        /\ sweep[s].nchunks = 2
        /\ get_chunk_count_by_document(s, sweep[s].doc) = 2
        /\ get_chunk_count_by_document(Committed, sweep[s].doc) = 0

\* C14: in every reachable state, two sweeps running at the same time
\* included, no file name has more than one Document, neither among the
\* committed rows nor in the view of any open transaction.
C14_OneDocumentPerFileName ==
    \A tx \in Sweepers \cup {Committed}, name \in FileNames :
        Cardinality(get_document_by_name(tx, name)) <= 1
\* Both sweeps were at the same file, one lost the insert to the constraint.
C14_SecondInsertRefused ==
    \E s \in Sweepers, o \in Sweepers, d \in docs :
        /\ s # o
        /\ sweep[s].pc = "yield_error"
        /\ sweep[s].error = "IntegrityError"
        /\ d.name = CurrentFile(s) /\ d.tx = Committed /\ d.del = NoTx
        /\ \E i \in 1 .. Len(sweep[o].files) : sweep[o].files[i] = d.name
        /\ sweep[o].pc # "idle"
\* C15: embed_batch returns, for every list of texts, every batch size and
\* every pattern of failing provider calls, a list as long as the input and
\* in its order: the provider's vector where the text is not blank and its
\* call succeeds, the zero vector where the text is blank or its call fails.
C15_EmbedBatchTotal ==
    call.op = "embed_batch" /\ call.returned =>
        /\ Len(call.result) = Len(call.args.texts)
        /\ \A j \in 1 .. Len(call.args.texts) :
              call.result[j] =
                  IF call.args.texts[j] \in {"", " "} \/ j \in call.args.failing
                  THEN ZeroVector
                  ELSE embed_text(call.args.texts[j])
\* Two batches, a blank text in the second, a failing call in the first.
C15_TwoBatchesFailureAndBlank ==
    /\ call.op = "embed_batch" /\ call.returned
    /\ call.args.texts = <<"a", "b", " ">>
    /\ call.args.batch_size = 2
    /\ call.args.failing = {2}
    /\ call.result = <<1, ZeroVector, ZeroVector>>
\* C16: a chat call that names an unknown conversation is answered not-found
\* (404), a chat call on an existing conversation with a folder other than
\* the recorded one is answered invalid-argument (400); in both cases the
\* agent has run no stage and neither a message nor a conversation is
\* written.
C16_LookupErrorKinds ==
    [][\A t \in Turns :
          turn[t].pc = "idle" /\ turn'[t].pc # "idle" =>
             LET cid   == call.args.conversation_id
                 f     == call.args.folder_path
                 found == {c \in convs : c.id = cid}
                 unknown  == cid # NoConv /\ found = {}
                 mismatch == \E c \in found :
                                c.folder # "none" /\ f # "none" /\ f # c.folder
             IN /\ unknown =>
                      /\ turn'[t].pc = "failed"
                      /\ turn'[t].err = "LookupError"
                      /\ turn'[t].status = 404
                /\ mismatch =>
                      /\ turn'[t].pc = "failed"
                      /\ turn'[t].err = "ValueError"
                      /\ turn'[t].status = 400
                /\ unknown \/ mismatch =>
                      /\ turn'[t].stages = <<>>
                      /\ msgs' = msgs
                      /\ convs' = convs]_vars
\* The request on the conversation of the former root, with the root as its
\* folder, was refused.
C16_MismatchRefused ==
    \E t \in Turns :
        /\ call.op = "chat"
        /\ call.args.conversation_id = 2
        /\ call.args.folder_path = Root
        /\ turn[t].pc = "failed"
        /\ turn[t].err = "ValueError"
        /\ msgs = SeedMsgs
\* C17: once a conversation has a folder, no step changes it: no chat turn,
\* whatever folder it is given, no title update and no soft delete; and the
\* conversation is never removed.
C17_FolderImmutable ==
    [][\A c \in convs :
          c.tx = Committed /\ c.folder # "none" =>
             \E d \in convs' : d.id = c.id /\ d.folder = c.folder]_vars
\* The conversation without a folder took the root in one turn, and a later
\* turn on it that asked for another folder was refused.
C17_SetThenRefused ==
    /\ \E c \in convs : c.id = 3 /\ c.folder = Root /\ c.tx = Committed
    /\ \E m \in msgs : m.conv = 3 /\ m.tx = Committed
    /\ \E c \in convs : c.id = 2 /\ c.folder = "old" /\ ~ c.active
    /\ \E t \in Turns : turn[t].pc = "failed" /\ turn[t].err = "ValueError"
    /\ turnsLeft = 0
\* C18: a folder path that is not the documents root makes list-folder,
\* ingest-folder, document-status and chat on a new conversation fail with a
\* validation error that reaches the caller (status 400, or the one error
\* event of the stream); no Document is created or deleted, no Conversation
\* is created, no progress event is emitted.
C18_BadFolderRefused ==
    call.op \in FolderOps /\ call.args.folder_path \notin {"none", Root} =>
        /\ docs = SeedDocs /\ chunks = SeedChunks
        /\ convs = SeedConvs /\ msgs = SeedMsgs
        /\ call.returned => call.result = [status |-> 400, body |-> <<>>]
        /\ \A s \in Sweepers :
              /\ sweep[s].pc \in {"idle", "done"}
              /\ sweep[s].pc = "done" => sweep[s].events = <<ValidationErrorEvent>>
        /\ \A t \in Turns :
              /\ turn[t].pc \in {"idle", "failed"}
              /\ turn[t].pc = "failed" =>
                    /\ turn[t].err = "ValueError"
                    /\ turn[t].status = 400
                    /\ turn[t].stages = <<>>
\* The stream of an ingest request for another folder ended with its error
\* event while the root held files.
C18_IngestElsewhereRefused ==
    /\ call.op = "ingest_folder"
    /\ call.args.folder_path = "elsewhere"
    /\ call.args.present = FileNames
    /\ sweep[FirstSweeper].pc = "done"
    /\ sweep[FirstSweeper].events = <<ValidationErrorEvent>>
    /\ sweepsLeft = 0
\* C19: a Document is created with status processing; its status changes at
\* most once, from processing to completed or to failed, and never after
\* that; the step to completed finds the chunks of the Document stored.
C19_DocumentStateMachine ==
    [][/\ \A e \in docs' :
            (\A d \in docs : d.id # e.id) => e.status = "processing"
       /\ \A d \in docs, e \in docs' :
            d.id = e.id /\ e.status # d.status =>
               /\ d.status = "processing"
               /\ e.status \in {"completed", "failed"}
               /\ e.status = "completed" =>
                     \E s \in Sweepers :
                        /\ sweep[s].doc = d.id
                        /\ sweep[s].nchunks > 0
                        /\ get_chunk_count_by_document(s, d.id) = sweep[s].nchunks]_vars
\* A sweep replaced the Document of file 1 by one that failed and created
\* one for file 2 that completed.
C19_FailedAndCompleted ==
    \E s \in Sweepers, d \in docs, e \in docs :
        /\ sweep[s].pc = "yield_complete"
        /\ d.name = 1 /\ d.id # 1 /\ d.status = "failed"
        /\ e.name = 2 /\ e.status = "completed"
        /\ ~ \E x \in VisibleDocs(s) : x.id = 1
\* C20: the lookup of a file goes by its name only: a file whose name has a
\* Document is re-ingested, that Document deleted and a new one created,
\* also when the stored hash equals the file's hash; a file whose name has
\* no Document gets a new one, also when a Document of another name has the
\* same hash, and that Document stays.
C20_DedupByName ==
    [][\A s \in Sweepers :
          LET name == CurrentFile(s)
              same == {d \in VisibleDocs(s) : d.name = name}
          IN /\ sweep[s].pc = "lookup" /\ sweep[s].idx = sweep'[s].idx =>
                   sweep'[s].pc = IF same = {} THEN "create" ELSE "delete"
             /\ sweep[s].pc = "delete" =>
                   \A d \in same : \E e \in docs' : e.id = d.id /\ e.del = s
             /\ sweep[s].pc = "create" =>
                   /\ sweep'[s].pc = "convert"
                   /\ \E e \in docs' :
                         /\ e.id = sweep'[s].doc /\ e.id = nextDoc
                         /\ e.name = name /\ e.hash = fs[name]
                   /\ \A d \in docs : d \in docs']_vars
\* File 1 was re-ingested with the bytes its Document had, file 2 holds the
\* same bytes: both have a Document, of the same hash.
C20_SameHashTwoDocuments ==
    \E s \in Sweepers : \E d \in VisibleDocs(s), e \in VisibleDocs(s) :
        /\ sweep[s].pc = "yield_complete"
        /\ d.name = 1 /\ d.id # 1 /\ d.hash = 1
        /\ e.name = 2 /\ e.hash = 1
\* The chunks of the folder whose Document is completed and whose embedding
\* is not null, as a reader of the committed store sees them.
C21_Candidates ==
    {c \in VisibleChunks(Committed) :
        /\ c.hasEmb
        /\ \E d \in VisibleDocs(Committed) :
              d.id = c.doc /\ d.status = "completed" /\ d.folder = Root}

\* C21 as stated: with the default threshold the search returns the first
\* `limit` chunks in descending similarity among all completed, embedded
\* chunks of the folder whose similarity is a number, negative ones included.
C21_NoSimilarityFiltering ==
    \A limit \in 1 .. top_k :
        LET q == QueryVector("hi")
            numbered == {c \in C21_Candidates : ~IsNaN(c.emb, q)}
        IN ChunkIds(vector_search(Committed, q, Root, limit, similarity_threshold))
              = ChunkIds(Head_n(OrderByDistance(numbered, q), limit))

\* C21, amended: with the default threshold the search returns the first
\* `limit` chunks in descending similarity among the completed, embedded
\* chunks of the folder whose similarity is a number and is at least 0; a
\* chunk of negative similarity and a chunk whose similarity is NaN (a
\* zero-vector embedding) are never returned.
C21_DefaultThresholdDropsNegative ==
    \A limit \in 1 .. top_k :
        LET q == QueryVector("hi")
            kept == {c \in C21_Candidates :
                        ~IsNaN(c.emb, q) /\ Similarity(c.emb, q) >= 0}
        IN ChunkIds(vector_search(Committed, q, Root, limit, similarity_threshold))
              = ChunkIds(Head_n(OrderByDistance(kept, q), limit))
\* A completed Document holds a chunk of similarity -1 beside one of
\* similarity 1; the search returns chunks, not that one.
C21_NegativeChunkLeftOut ==
    LET q == QueryVector("hi")
        found == vector_search(Committed, q, Root, top_k, similarity_threshold)
    IN /\ Len(found) >= 2
       /\ \E c \in C21_Candidates :
             /\ Similarity(c.emb, q) = -1
             /\ \A i \in 1 .. Len(found) : ChunkId(found[i]) # ChunkId(c)
\* C22: the delete of a conversation the session finds clears its active
\* flag and nothing else: every message stays as it is, every conversation
\* keeps its title and folder, the conversation is not listed afterwards,
\* nor in any later state; the delete of an id the session does not find is
\* answered not-found and changes no row.
C22_SoftDeleteFrame ==
    [][/\ call.op = "delete_conversation" /\ ~ call.returned /\ call'.returned =>
            LET cid   == call.args.conversation_id
                found == {c \in convs : c.id = cid /\ c.tx = Committed}
            IN /\ msgs' = msgs
               /\ Cardinality(convs') = Cardinality(convs)
               /\ \A c \in convs : \E d \in convs' :
                     /\ d.id = c.id /\ d.title = c.title /\ d.folder = c.folder
                     /\ d.tx = c.tx
                     /\ d.active = (c.active /\ c \notin found)
               /\ found = {} => convs' = convs /\ call'.result.status = 404
               /\ found # {} => call'.result.status = 200
               /\ cid \notin list_conversations'
       /\ \A c \in convs :
            c.tx = Committed /\ ~ c.active =>
               \A d \in convs' : d.id = c.id => ~ d.active]_vars
\* Conversation 1 was deleted while a turn on it was open; the turn
\* committed its two messages after the delete.
C22_DeletedThenAppended ==
    /\ call.op = "delete_conversation" /\ call.returned
    /\ call.args.conversation_id = 1
    /\ call.result.status = 200
    /\ 1 \notin list_conversations
    /\ Cardinality(CommittedMessages(1)) = 4
    /\ \E c \in convs : c.id = 1 /\ c.title = DeriveTitle("hi") /\ c.folder = Root
\* C23: a title is written only to a conversation that has none, by the
\* turn that made its first exchange: it is the first user message, whole
\* when that has at most 50 characters, else its first 50 characters and
\* "..."; that turn does not return before the title is written, and a
\* conversation that has a title keeps it.
C23_TitleFromFirstExchange ==
    [][/\ \A c \in convs, d \in convs' :
            d.id = c.id /\ d.title # c.title =>
               /\ c.title = NoTitle
               /\ \E first \in CommittedMessages(c.id) :
                     /\ first.seq = 1 /\ first.role = "user"
                     /\ d.title.text = first.content
                     /\ d.title.keep = Min({TextLen(first.content), title_limit})
                     /\ d.title.dots = (TextLen(first.content) > title_limit)
       /\ \A t \in Turns :
            turn[t].pc = "commit" /\ turn[t].cid = NoConv =>
               turn'[t].pc \in {"commit", "title"}
       /\ \A t \in Turns :
            turn[t].pc = "title" /\ turn'[t].pc # "title" =>
               \E d \in convs' : d.id = turn[t].conv /\ d.title # NoTitle]_vars
\* A conversation got the truncated title of its 51-character first message
\* and kept it through a second turn with another message.
C23_TruncatedTitleKept ==
    \E c \in convs :
        /\ c.tx = Committed
        /\ c.title = [text |-> OverLimit, keep |-> 50, dots |-> TRUE]
        /\ \E m \in CommittedMessages(c.id) :
              m.seq = 3 /\ m.role = "user" /\ m.content = AtLimit
        /\ \A t \in Turns : turn[t].pc = "done"
\* C24: in every state and in every session's view the chunk indices of a
\* Document are 0 .. N-1, each once, and the chunks a sweep has stored for
\* its current file carry the vectors of its embed_batch call in chunk
\* order: chunk i has the vector returned at position i.
C24_ChunkIndicesAndVectors ==
    /\ \A tx \in Sweepers \cup {Committed} :
          \A d \in VisibleDocs(tx) :
             LET stored == {c \in VisibleChunks(tx) : c.doc = d.id}
             IN /\ {c.idx : c \in stored} = 0 .. Cardinality(stored) - 1
                /\ \A a \in stored, b \in stored : a.idx = b.idx => a = b
    /\ \A s \in Sweepers :
          sweep[s].doc # 0 =>
             \A c \in {x \in chunks : x.doc = sweep[s].doc} :
                /\ c.idx + 1 <= Len(sweep[s].embeddings)
                /\ c.emb = sweep[s].embeddings[c.idx + 1]
                /\ c.emb = IF c.idx + 1 \in sweep[s].failing THEN ZeroVector
                           ELSE ChunkVector(c.idx + 1)
\* A sweep stored two chunks whose vectors differ, the first chunk with the
\* first vector.
C24_TwoChunksInOrder ==
    \E s \in Sweepers :
        /\ sweep[s].pc = "complete"
        /\ sweep[s].embeddings = <<1, -1>>
        /\ \E a \in chunks, b \in chunks :
              /\ a.doc = sweep[s].doc /\ a.idx = 0 /\ a.emb = 1
              /\ b.doc = sweep[s].doc /\ b.idx = 1 /\ b.emb = -1
\* C25: the status read changes no row and no sweep; it reports the
\* committed Documents of the folder in name order, each with its status,
\* its error message and the number of chunks stored for it; once a sweep
\* has ingested a file successfully and committed it, the report shows that
\* file completed with as many chunks as the chunker produced.
C25_StatusIsPureRead ==
    [][call.op = "document_status" /\ ~ call.returned /\ call'.returned =>
          LET body == call'.result.body
              reported == {d \in docs : d.tx = Committed /\ d.folder = Root}
          IN /\ UNCHANGED <<convs, msgs, docs, chunks, nextConv, nextDoc, sweep, fs>>
             /\ call'.result.status = 200
             /\ Len(body) = Cardinality(reported)
             /\ \A i \in 1 .. Len(body) - 1 : body[i].file_name < body[i + 1].file_name
             /\ \A i \in 1 .. Len(body) : \E d \in reported :
                   /\ body[i].file_name = d.name
                   /\ body[i].status = d.status
                   /\ body[i].error_message = d.err
                   /\ body[i].chunk_count =
                         Cardinality({c \in chunks : c.doc = d.id /\ c.tx = Committed})
             /\ \A s \in Sweepers :
                   sweep[s].pc = "lookup" /\ sweep[s].doc # 0 /\ sweep[s].error = "none" =>
                      \E i \in 1 .. Len(body), d \in reported :
                         /\ d.id = sweep[s].doc
                         /\ body[i].file_name = d.name
                         /\ body[i].status = "completed"
                         /\ body[i].chunk_count = sweep[s].nchunks]_vars
\* The read came after a sweep had committed a file of two chunks and while
\* it was at the next file: the report shows that file completed.
C25_ReadAfterIngest ==
    \E s \in Sweepers :
        /\ call.op = "document_status" /\ call.returned
        /\ sweep[s].pc = "lookup" /\ sweep[s].nchunks = 2 /\ sweep[s].idx = 1
        /\ \E i \in 1 .. Len(call.result.body) :
              /\ call.result.body[i].file_name = sweep[s].files[1]
              /\ call.result.body[i].status = "completed"
              /\ call.result.body[i].error_message = "none"
              /\ call.result.body[i].chunk_count = 2
\* C26: a turn runs retrieve, augment, generate in that order, each once:
\* the stage list only grows by the next stage, and when generate has run
\* the embedding provider was called at most once, vector search at most
\* once, the chat provider exactly once, with the system instruction, then
\* the conversation's messages as read at the start of the turn, in
\* sequence order with their roles, then one user turn of context and query.
C26_StagesOnceInOrder ==
    [][\A t \in Turns :
          LET order == <<"retrieve", "augment", "generate">>
              before == turn[t]
              after == turn'[t]
          IN /\ \/ after.stages = <<>>
                \/ /\ Len(after.stages) >= Len(before.stages)
                   /\ after.stages = SubSeq(order, 1, Len(after.stages))
             /\ before.pc = "idle" /\ after.pc = "retrieve" =>
                   LET stored == IF after.cid = NoConv THEN {}
                                 ELSE MessagesOf(t, after.conv)
                   IN /\ Len(after.hist) = Cardinality(stored)
                      /\ \A i \in 1 .. Len(after.hist) : \E m \in stored :
                            /\ Cardinality({o \in stored : o.seq < m.seq}) = i - 1
                            /\ after.hist[i].role = m.role
                            /\ after.hist[i].content = m.content
             /\ before.pc = "generate" /\ after.pc # "generate" =>
                   /\ after.stages = order
                   /\ after.embedCalls <= 1
                   /\ after.searchCalls <= 1
                   /\ after.searchCalls <= after.embedCalls
                   /\ after.chatCalls = 1
                   /\ Len(after.sent) = Len(before.hist) + 2
                   /\ after.sent[1].role = "system"
                   /\ \A i \in 1 .. Len(before.hist) :
                         after.sent[i + 1] = before.hist[i]
                   /\ after.sent[Len(after.sent)] =
                         [role |-> "user", content |-> before.msg,
                          context |-> before.context]
             /\ after.pc \notin {"idle", "retrieve", "generate", "failed", "done"} =>
                   after.chatCalls = 1 /\ after.stages = order]_vars
\* A turn on a conversation with a stored exchange has sent four messages
\* to the provider: system, user, assistant, user.
C26_HistorySent ==
    \E t \in Turns :
        /\ turn[t].chatCalls = 1
        /\ Len(turn[t].sent) = 4
        /\ turn[t].sent[2].role = "user"
        /\ turn[t].sent[3].role = "assistant"
        /\ turn[t].sent[4].role = "user"
        /\ turn[t].stages = <<"retrieve", "augment", "generate">>
\* C27: in every conversation the committed messages alternate by sequence
\* parity, odd sequences are user messages and even ones assistant messages,
\* and every committed user message is followed at the next sequence by the
\* assistant message of the same request, whatever the interleaving of turns.
C27_RolesAlternate ==
    \A conv \in ConvIds :
       \A m \in CommittedMessages(conv) :
          /\ m.role = IF m.seq % 2 = 1 THEN "user" ELSE "assistant"
          /\ m.role = "user" =>
                \E a \in CommittedMessages(conv) :
                   /\ a.seq = m.seq + 1
                   /\ a.role = "assistant"
                   /\ a.id[1] = m.id[1]
          /\ \A o \in CommittedMessages(conv) : o.seq = m.seq => o = m
\* Two turns ran on the same conversation at once: one committed its pair
\* at sequences 3 and 4, the other was refused by the unique constraint.
C27_ConcurrentTurnsOnePair ==
    \E t \in Turns, conv \in ConvIds :
        /\ turn[t].pc = "failed" /\ turn[t].err = "IntegrityError"
        /\ \E u \in CommittedMessages(conv), a \in CommittedMessages(conv) :
              /\ u.seq = 3 /\ u.role = "user"
              /\ a.seq = 4 /\ a.role = "assistant"
              /\ u.id[1] = a.id[1]
\* C28: when the ingestion of a file fails, the Document the file had before
\* is not restored: in the sweep's transaction right after the failure, and
\* in the committed store once the sweep has ended, the only Document of
\* that name is the new one with status failed, it has no chunk, and vector
\* retrieval returns no chunk of a Document of that name.
C28_FailedReingestionNotRestored ==
    LET OnlyFailedDocument(tx, name) ==
            LET named == {d \in VisibleDocs(tx) : d.name = name}
                ids == {d.id : d \in named}
            IN /\ Cardinality(named) = 1
               /\ \A d \in named : d.status = "failed" /\ d.err # "none"
               /\ \A d \in SeedDocs : d.id \notin ids
               /\ \A c \in VisibleChunks(tx) : c.doc \notin ids
               /\ \A m \in Texts :
                     LET found == vector_search(tx, QueryVector(m), Root, top_k,
                                                similarity_threshold)
                     IN \A i \in 1 .. Len(found) : found[i].doc \notin ids
    IN
    \A s \in Sweepers :
       /\ sweep[s].pc = "yield_error" /\ ~ sweep[s].aborted =>
             OnlyFailedDocument(s, CurrentFile(s))
       /\ sweep[s].pc = "done" /\ ~ sweep[s].aborted =>
             \A i \in 1 .. Len(sweep[s].events) :
                sweep[s].events[i].type = "error" =>
                   OnlyFailedDocument(Committed, sweep[s].events[i].file)
\* The sweep has ended after the re-ingestion of the seeded, completed
\* Document's file failed: the committed store holds no chunk of it.
C28_SeededFileFailed ==
    \E s \in Sweepers :
        /\ sweep[s].pc = "done" /\ ~ sweep[s].aborted
        /\ \E i \in 1 .. Len(sweep[s].events) :
              /\ sweep[s].events[i].type = "error"
              /\ \E d \in SeedDocs : sweep[s].events[i].file = d.name
        /\ \A d \in SeedDocs : d \notin docs
        /\ \A c \in SeedChunks : c \notin chunks
\* C29: among the committed rows, a completed Document has at least one
\* chunk and no error message, a failed Document has an error message and no
\* chunk, and a processing Document has no chunk.
C29_StatusMatchesChunks ==
    \A d \in docs :
       d.tx = Committed =>
          LET stored == {c \in chunks : c.doc = d.id /\ c.tx = Committed}
          IN /\ d.status = "completed" => stored # {} /\ d.err = "none"
             /\ d.status = "failed" => stored = {} /\ d.err # "none"
             /\ d.status = "processing" => stored = {}
\* A sweep has committed one Document that failed and one it completed.
C29_FailedAndCompletedCommitted ==
    \E d \in docs, e \in docs :
        /\ d.tx = Committed /\ d.status = "failed" /\ d.id \notin {x.id : x \in SeedDocs}
        /\ e.tx = Committed /\ e.status = "completed" /\ e.id \notin {x.id : x \in SeedDocs}
        /\ \E c \in chunks : c.doc = e.id /\ c.tx = Committed
\* C30: a chat turn that names a stored conversation is never answered
\* not-found, soft-deleted or not; the turn that commits appends a user
\* message and an assistant message at the next two sequence numbers of the
\* conversation; a soft-deleted conversation is still found by its id; and
\* no step sets the active flag of a conversation back to true.
C30_SoftDeletedStillOpen ==
    [][/\ \A t \in Turns : turn'[t].err # "LookupError" /\ turn'[t].status # 404
       /\ \A t \in Turns :
            turn[t].pc = "commit" /\ turn'[t].pc # "commit" =>
               LET conv == turn[t].conv
                   last == Max({m.seq : m \in CommittedMessages(conv)})
                   added == {m \in msgs' : m.conv = conv /\ m.tx = Committed}
                            \ CommittedMessages(conv)
               IN /\ CommittedMessages(conv)
                        \subseteq {m \in msgs' : m.conv = conv /\ m.tx = Committed}
                  /\ {<<m.seq, m.role>> : m \in added}
                        = {<<last + 1, "user">>, <<last + 2, "assistant">>}
       /\ \A c \in convs' :
            c.tx = Committed /\ ~ c.active =>
               c \in get_conversation_with_messages(Committed, c.id)'
       /\ \A c \in convs, d \in convs' :
            d.id = c.id /\ ~ c.active => ~ d.active]_vars
\* Two turns ran one after the other on the conversation that was
\* soft-deleted before either began: it holds six messages and is inactive.
C30_TwoTurnsOnDeleted ==
    \E c \in convs :
        /\ c.id = 1 /\ c.tx = Committed /\ ~ c.active
        /\ {m.seq : m \in CommittedMessages(1)} = 1 .. 6
        /\ \E t \in Turns : turn[t].pc = "done" /\ turn[t].status = 200
====
